---- MODULE Spec2Model ----
(***************************************************************************)
(* A model of the issue -> pull-request linkage resolution and of the      *)
(* request transport of the issue_finder package.                          *)
(*                                                                         *)
(*   SpecLinked    IssueAnalyzer._find_linked_prs   (analyzer.py)          *)
(*   SpecAnalyzer  IssueAnalyzer.analyze_issue      (analyzer.py)          *)
(*   SpecAsync     AsyncGitHubClient.analyze_issue  (async_client.py)      *)
(*   SpecCloser    get_single_closing_pr            (github_queries.py)    *)
(*   SpecFinder    IssueFinder._analyze_issue       (finder.py)            *)
(*   SpecGet       AsyncGitHubClient._get           (async_client.py)      *)
(*   SpecCancel    _get with tasks being cancelled  (async_client.py)      *)
(*   SpecTimed     _get with its clock, concurrent  (async_client.py)      *)
(*   SpecSequential  _get with its clock, in turn   (async_client.py)      *)
(*   SpecCache     CacheStore                       (cache.py)             *)
(*   SpecScan      scan_repo over the cache         (async_client.py)      *)
(*   SpecFaulty    scan_repo with failing requests  (async_client.py)      *)
(*   SpecSweep     the fan-out of IssueAnalyzer     (analyzer.py)          *)
(*   SpecRaising   _get with a raising header       (async_client.py)      *)
(*   SpecPar       scan_repos_parallel              (async_client.py)      *)
(*   SpecScoring   the complexity scorers  (scoring.py, analyzer.py)       *)
(*   SpecFast      GitHubScraper.analyze_issue_fast (scraper.py)           *)
(*   SpecPaging    GitHubClient.get_paginated       (github_api.py)        *)
(***************************************************************************)
EXTENDS Integers, Sequences, FiniteSets, TLC

VARIABLES
    \* ---- upstream data read by IssueAnalyzer (analyzer.py)
    timeline,           \* the issue's timeline events
    pulls,              \* pull number -> the pull request upstream holds
    search_items,       \* the /search/issues answer (pull numbers, in order)
    \* ---- locals of IssueAnalyzer._find_linked_prs
    same_repo_prs,
    closing_commit_id,
    merged_prs,
    unique_prs,
    requests,           \* the requests issued so far, in order
    yielded,            \* strategy -> the pull numbers it appended
    pc,
    \* ---- IssueAnalyzer.analyze_issue (analyzer.py)
    analyzer,           \* the IssueAnalyzer's thresholds (self.min_stars ...)
    early_reject,
    repo_info,          \* the repository payload
    issue_data,         \* the issue payload
    pr_files,           \* the answer of /pulls/{n}/files
    analysis,           \* the IssueAnalysis being filled in
    \* ---- AsyncGitHubClient.analyze_issue (async_client.py)
    issue,              \* the IssueInfo under analysis
    profile,            \* the ScoringProfile
    upstream,           \* what GitHub answers: linked pulls, pull details
    pr_nums,            \* the answer of get_linked_prs
    idx,                \* position of the Gate 4 loop in pr_nums
    best_pr,
    reasons,
    score,              \* in half points
    result,             \* the IssueAnalysisResult returned
    apc,
    \* ---- get_single_closing_pr (github_queries.py)
    nodes,              \* the timelineItems nodes of the GraphQL answer
    closing_pr,         \* the value returned
    cpc,
    \* ---- IssueFinder._analyze_issue (finder.py)
    rejection_counts,   \* self.rejection_counts
    pull_numbers,
    valid_pull_payloads,
    keys,               \* the keys _reject was called with for the current issue
    cases,              \* per analysed issue: what upstream held for it
    recorded,           \* per analysed issue: the keys it was rejected with
    fpc,
    \* ---- AsyncGitHubClient._get (async_client.py)
    client,             \* the ceilings the client was built with
    api_sem,            \* self._api_sem
    scrape_sem,         \* self._scrape_sem
    lock,               \* self._lock
    calls,              \* caller -> the state of its _get call
    \* ---- the clock and the throttle of AsyncGitHubClient._get
    now,                \* time.monotonic(), in seconds
    last_request,       \* self._last_request
    last_sent,          \* when the latest request of any call was sent
    closest,            \* the least time between two successive requests so far
    \* ---- CacheStore (cache.py)
    enabled,            \* self.enabled
    cache_dir,              \* the cache directory: path -> content of the file
    wall,               \* time.time()
    latest,             \* path -> the latest set since the last invalidate
    last_get,           \* the get just made and what it returned
    \* ---- AsyncGitHubClient.scan_repo (async_client.py)
    github,             \* what GitHub answers: issue list, issue pages, pulls
    scan,               \* the scan_repo call under way and its analyze_issue tasks
    outs,               \* what the finished scan_repo calls returned, in order
    \* ---- IssueAnalyzer.search_and_analyze, analyze_specific_repo (analyzer.py)
    sweep,              \* the call: its issues, its position, its results
    \* ---- AsyncGitHubClient.scan_repos_parallel (async_client.py)
    par,                \* the call: its repository tasks and what they returned
    \* ---- score_candidate, IssueAnalyzer._compute_complexity
    scoring,            \* the inputs of a scorer and the score it gave
    \* ---- GitHubScraper.analyze_issue_fast (scraper.py)
    fast,               \* the issue's page, its pulls, and the value returned
    \* ---- GitHubClient.get_paginated (github_api.py)
    paging              \* the endpoint's pages, the requests sent, the items returned

linkedVars == <<timeline, pulls, search_items, same_repo_prs, closing_commit_id,
                merged_prs, unique_prs, requests, yielded, pc>>
analyzerVars == <<analyzer, early_reject, repo_info, issue_data, pr_files, analysis>>

asyncVars == <<issue, profile, upstream, pr_nums, idx, best_pr, reasons, score, result, apc>>

closerVars == <<nodes, closing_pr, cpc>>
finderVars == <<rejection_counts, pull_numbers, valid_pull_payloads, keys, cases, recorded, fpc>>
getVars == <<client, api_sem, scrape_sem, lock, calls>>
sendVars == <<last_sent, closest>>
timeVars == <<now, last_request, sendVars>>

\* the variables of the operations modelled further down
cacheVars == <<enabled, cache_dir, wall, latest, last_get>>
scanVars == <<github, scan, outs>>
lateVars == <<par, scoring, fast, paging>>
restVars == <<timeVars, cacheVars, scanVars, sweep, lateVars>>

vars == <<linkedVars, analyzerVars, asyncVars, closerVars, finderVars, getVars, restVars>>
notLinkedVars == <<analyzerVars, asyncVars, closerVars, finderVars, getVars, restVars>>
notAnalyzerVars == <<asyncVars, closerVars, finderVars, getVars, restVars>>
notAsyncVars == <<linkedVars, analyzerVars, closerVars, finderVars, getVars, restVars>>
notCloserVars == <<linkedVars, analyzerVars, asyncVars, finderVars, getVars, restVars>>
notFinderVars == <<linkedVars, analyzerVars, asyncVars, closerVars, getVars, restVars>>
notGetVars == <<linkedVars, analyzerVars, asyncVars, closerVars, finderVars, restVars>>
notTimedVars == <<linkedVars, analyzerVars, asyncVars, closerVars, finderVars, cacheVars,
                  scanVars, sweep, lateVars>>
notCacheVars == <<linkedVars, analyzerVars, asyncVars, closerVars, finderVars, getVars, timeVars,
                  scanVars, sweep, lateVars>>
notScanVars == <<linkedVars, analyzerVars, asyncVars, closerVars, finderVars, getVars, timeVars,
                 latest, last_get, sweep, lateVars>>
notSweepVars == <<linkedVars, analyzerVars, asyncVars, closerVars, finderVars, getVars, timeVars,
                  cacheVars, scanVars, lateVars>>
earlyVars == <<linkedVars, analyzerVars, asyncVars, closerVars, finderVars, getVars, timeVars,
               cacheVars, scanVars, sweep>>
notParVars == <<earlyVars, scoring, fast, paging>>
notScoringVars == <<earlyVars, par, fast, paging>>
notFastVars == <<earlyVars, par, scoring, paging>>
notPagingVars == <<earlyVars, par, scoring, fast>>

(***************************************************************************)
(* Bounds and the small universes the inputs are drawn from.               *)
(***************************************************************************)
IssueNumber == 10                   \* the issue being resolved
OtherIssue == IssueNumber + 1       \* some other issue of the repository
MaxTimeline == 3                    \* events in a timeline
PullNumbers == {51, 52}             \* pull requests of the repository
ForeignPull == CHOOSE p \in PullNumbers : TRUE   \* a pull of another repository, same number
NoCommit == ""                      \* commit_id absent (None)
MergeCommitSha == (51 :> "c51" @@ 52 :> "c52")
CommitIds == {NoCommit, "c51", "c52", "c99"}

\* A pull-request body is a sequence of references "#num", each either
\* directly preceded by a closing keyword (close/fix/resolve ...) or not.
Fix(n) == [kw |-> TRUE, num |-> n]
Mention(n) == [kw |-> FALSE, num |-> n]
PullBodies == { <<>>, <<Mention(IssueNumber)>>, <<Fix(IssueNumber)>>,
                <<Fix(OtherIssue)>>, <<Fix(IssueNumber), Fix(OtherIssue)>> }

RECURSIVE SeqsUpTo(_, _)
SeqsUpTo(S, n) ==
    IF n = 0 THEN { <<>> }
    ELSE LET shorter == SeqsUpTo(S, n - 1)
         IN shorter \cup { Append(s, x) : s \in {t \in shorter : Len(t) = n - 1}, x \in S }

Max(S) == CHOOSE x \in S : \A y \in S : y <= x
Min(S) == CHOOSE x \in S : \A y \in S : x <= y

\* sorted(set)
RECURSIVE sorted(_)
sorted(S) == IF S = {} THEN <<>> ELSE <<Min(S)>> \o sorted(S \ {Min(S)})

\* list(dict.fromkeys(seq)): first occurrences, order kept
RECURSIVE dedupe(_)
dedupe(s) ==
    IF s = <<>> THEN <<>>
    ELSE LET front == dedupe(SubSeq(s, 1, Len(s) - 1))
             last == s[Len(s)]
         IN IF \E i \in DOMAIN front : front[i] = last THEN front ELSE Append(front, last)

Range(s) == { s[i] : i \in DOMAIN s }

(***************************************************************************)
(* IssueAnalyzer.analyze_issue: payloads                                   *)
(***************************************************************************)
MIN_STARS == 200
MAX_REPO_SIZE_MB == 200
MIN_SUBSTANTIAL_CHANGES == 20
KbPerMb == 1024
MinBodyLength == 30
MaxFiles == 2                       \* files in a pull request

\* the thresholds an IssueAnalyzer is built with
AnalyzerSettings ==
    [min_stars : {MIN_STARS}, max_size_mb : {MAX_REPO_SIZE_MB},
     min_python_files : 0..MaxFiles, min_substantial : {MIN_SUBSTANTIAL_CHANGES}]

NoRepo == [found |-> FALSE, stargazers_count |-> 0, size |-> 0]
RepoInfos ==
    {NoRepo} \cup
    [found : {TRUE}, stargazers_count : {MIN_STARS - 1, MIN_STARS},
     size : {MAX_REPO_SIZE_MB * KbPerMb, MAX_REPO_SIZE_MB * KbPerMb + 1}]

\* An issue body is a sequence of pieces separated by one blank: plain text
\* of some length, an http(s) URL, the URL of an image file, a markdown
\* image with a relative path, an HTML img tag with a relative path.
Text(n) == [kind |-> "text", len |-> n]
Url == [kind |-> "url", len |-> 24]
ImageUrl == [kind |-> "image_url", len |-> 28]
MdImage == [kind |-> "md_image", len |-> 16]
HtmlImg == [kind |-> "html_img", len |-> 22]
IssueBodies ==
    { <<Text(40)>>, <<Text(12)>>, <<Text(40), Url>>, <<Text(40), MdImage>>,
      <<Text(40), HtmlImg>>, <<Text(40), ImageUrl>> }

NoIssue == [found |-> FALSE, pull_request |-> FALSE, state |-> "closed", body |-> <<>>]
IssueDatas ==
    {NoIssue} \cup
    {[found |-> TRUE, pull_request |-> TRUE, state |-> "closed", body |-> <<>>]} \cup
    [found : {TRUE}, pull_request : {FALSE}, state : {"closed", "open"}, body : IssueBodies]

\* A file path: its directories, the words of its base name (split at "_")
\* and its extension.
Path(dirs, stem, ext) == [dirs |-> dirs, stem |-> stem, ext |-> ext]
NoFile == Path(<<>>, <<>>, "")
SrcCore == Path(<<"src">>, <<"core">>, "py")
SrcUtil == Path(<<"src">>, <<"util">>, "py")
TestCore == Path(<<"tests">>, <<"test", "core">>, "py")
Change(f, a, d) == [filename |-> f, additions |-> a, deletions |-> d]
FileChanges ==
    { Change(SrcCore, 19, 1), Change(SrcCore, 1, 1), Change(SrcUtil, 1, 1),
      Change(TestCore, 19, 1) }
PrFilesAnswers == SeqsUpTo(FileChanges, MaxFiles)

(***************************************************************************)
(* filters.py                                                              *)
(***************************************************************************)
\* len(body): the pieces and the blanks between them
RECURSIVE BodyLen(_)
BodyLen(body) ==
    IF body = <<>> THEN 0
    ELSE body[1].len + (IF Len(body) > 1 THEN 1 ELSE 0) + BodyLen(Tail(body))

\* check_issue_text_purity: IMAGE_PATTERN and TRIVIAL_LINK_PATTERN
check_issue_text_purity(body) ==
    LET images == { i \in DOMAIN body : body[i].kind \in {"md_image", "html_img", "image_url"} }
        links == { i \in DOMAIN body : body[i].kind \in {"url", "image_url"} }
    IN [has_images |-> images # {}, has_links |-> links # {}, link_count |-> Cardinality(links)]

\* classify_file: TEST_FILE_PATTERNS, DOC_FILE_PATTERNS, CONFIG_FILE_PATTERNS
classify_file(f) ==
    [is_python |-> f.ext = "py",
     is_test |-> \/ Range(f.dirs) \cap {"test", "tests", "testing", "fixtures"} # {}
                 \/ (f.ext = "py" /\ Len(f.stem) > 1 /\ f.stem[1] = "test")
                 \/ (f.ext = "py" /\ Len(f.stem) > 1 /\ f.stem[Len(f.stem)] = "test")
                 \/ (f.ext = "py" /\ f.stem = <<"conftest">>),
     is_doc |-> \/ Range(f.dirs) \cap {"doc", "docs", "documentation"} # {}
                \/ f.ext \in {"md", "rst", "txt", "adoc"}
                \/ (f.stem # <<>> /\ f.stem[1] \in {"readme", "changelog", "contributing",
                                                     "license", "history", "authors"}),
     is_config |-> \/ f.ext \in {"cfg", "ini", "toml", "yaml", "yml", "json"}
                   \/ (f.ext = "py" /\ f.stem = <<"setup">>)
                   \/ (f.stem # <<>> /\ f.stem[1] \in {"makefile", "dockerfile"})
                   \/ Range(f.dirs) \cap {".github"} # {}]

\* FileChangeInfo.is_code_python and FileChangeInfo.total_changes
is_code_python(fc) == fc.is_python /\ ~fc.is_test /\ ~fc.is_doc /\ ~fc.is_config
total_changes(fc) == fc.additions + fc.deletions

\* analyze_file_changes
analyze_file_changes(files) ==
    [i \in DOMAIN files |->
        LET info == classify_file(files[i].filename)
        IN [filename |-> files[i].filename, additions |-> files[i].additions,
            deletions |-> files[i].deletions, is_python |-> info.is_python,
            is_test |-> info.is_test, is_doc |-> info.is_doc, is_config |-> info.is_config]]

\* IssueAnalysis(owner, repo, issue_number)
EmptyAnalysis ==
    [issue_number |-> IssueNumber, issue_body |-> <<>>,
     pr_number |-> 0, pr_merged |-> FALSE, repo_stars |-> 0, repo_size_kb |-> 0,
     has_images |-> FALSE, has_links |-> FALSE, link_count |-> 0, is_pure_text |-> TRUE,
     linked_pr_count |-> 0, file_changes |-> <<>>,
     total_python_code_files |-> 0, total_test_files_changed |-> 0,
     total_doc_files_changed |-> 0, max_file_changes |-> 0, max_change_file |-> NoFile,
     total_additions |-> 0, total_deletions |-> 0,
     complexity_score |-> 0, meets_criteria |-> FALSE, rejection_reasons |-> <<>>]

(***************************************************************************)
(* Upstream: timeline events and pull requests.                            *)
(***************************************************************************)
\* a cross-referenced event whose source is pull request p of repository repo
CrossRef(p, repo, merged) ==
    [event |-> "cross-referenced", repo |-> repo, number |-> p,
     state |-> IF merged THEN "closed" ELSE "open", merged_at |-> merged,
     commit_id |-> NoCommit]
ClosedEvent(cid) ==
    [event |-> "closed", repo |-> "own", number |-> 0,
     state |-> "closed", merged_at |-> FALSE, commit_id |-> cid]

PullRecords ==
    [PullNumbers -> [merged : BOOLEAN, body : PullBodies]]

\* the events a timeline can hold when upstream holds the pull requests db
TimelineEvents(db) ==
    { CrossRef(p, "own", db[p].merged) : p \in PullNumbers }
    \cup { CrossRef(ForeignPull, "other", TRUE) }
    \cup { ClosedEvent(c) : c \in CommitIds }

\* GET /repos/{owner}/{repo}/pulls/{n}
get_pull_request(p) ==
    [number |-> p, merged |-> pulls[p].merged,
     merge_commit_sha |-> MergeCommitSha[p], body |-> pulls[p].body]

(***************************************************************************)
(* IssueAnalyzer._find_linked_prs                                          *)
(***************************************************************************)
\* re.search(close_pattern, body): a closing keyword followed by #issue_number
ClosePatternMatches(body, n) ==
    \E i \in DOMAIN body : body[i].kw /\ body[i].num = n

\* the timeline loop: same-repo, closed and merged cross-referenced pulls
SameRepoPrs(tl) ==
    { tl[i].number : i \in { j \in DOMAIN tl :
        /\ tl[j].event = "cross-referenced"
        /\ tl[j].repo = "own"
        /\ tl[j].state = "closed"
        /\ tl[j].merged_at } }

\* the timeline loop: the commit_id of the last closed event that has one
ClosingCommitId(tl) ==
    LET closing == { j \in DOMAIN tl : tl[j].event = "closed" /\ tl[j].commit_id # NoCommit }
    IN IF closing = {} THEN NoCommit ELSE tl[Max(closing)].commit_id

\* the closing keywords of a body: the issue numbers it closes
ClosedByBody(body) == { body[i].num : i \in { j \in DOMAIN body : body[j].kw } }

\* the guards of the four strategies
Strategy1Applies(cid, prs) == cid # NoCommit /\ prs # {}
Strategy2Unguarded(found, prs) == prs # {}
Strategy2Applies(found, prs) == found = <<>> /\ prs # {}
Strategy3Unguarded(found, prs) == prs # {}
Strategy3Applies(found, prs) == found = <<>> /\ prs # {}
Strategy4Applies(found) == found = <<>>

\* Strategy 1's loop over sorted(same_repo_prs) from position i: stops at the
\* first merged pull whose merge commit is the closing commit
RECURSIVE Strategy1Loop(_, _, _)
Strategy1Loop(order, i, cid) ==
    IF i > Len(order) THEN [found |-> <<>>, fetched |-> <<>>]
    ELSE LET pr_data == get_pull_request(order[i])
         IN IF pr_data.merged /\ pr_data.merge_commit_sha = cid
            THEN [found |-> <<order[i]>>, fetched |-> <<order[i]>>]
            ELSE LET rest == Strategy1Loop(order, i + 1, cid)
                 IN [found |-> rest.found, fetched |-> <<order[i]>> \o rest.fetched]

\* Strategy 2's loop: every merged pull whose body has the closing pattern
RECURSIVE Strategy2Loop(_, _)
Strategy2Loop(order, i) ==
    IF i > Len(order) THEN [found |-> <<>>, fetched |-> <<>>]
    ELSE LET pr_data == get_pull_request(order[i])
             rest == Strategy2Loop(order, i + 1)
             hit == pr_data.merged /\ ClosePatternMatches(pr_data.body, IssueNumber)
         IN [found |-> (IF hit THEN <<order[i]>> ELSE <<>>) \o rest.found,
             fetched |-> <<order[i]>> \o rest.fetched]

\* Strategy 3's loop: every merged pull
RECURSIVE Strategy3Loop(_, _)
Strategy3Loop(order, i) ==
    IF i > Len(order) THEN [found |-> <<>>, fetched |-> <<>>]
    ELSE LET pr_data == get_pull_request(order[i])
             rest == Strategy3Loop(order, i + 1)
         IN [found |-> (IF pr_data.merged THEN <<order[i]>> ELSE <<>>) \o rest.found,
             fetched |-> <<order[i]>> \o rest.fetched]

\* Strategy 4's loop over the search items: bodies with the closing pattern
RECURSIVE Strategy4Loop(_, _)
Strategy4Loop(items, i) ==
    IF i > Len(items) THEN <<>>
    ELSE (IF ClosePatternMatches(pulls[items[i]].body, IssueNumber)
          THEN <<items[i]>> ELSE <<>>) \o Strategy4Loop(items, i + 1)

\* what /search/issues "repo:o/r is:pr is:merged N in:body" may answer: merged
\* pulls whose body mentions the issue number, some of them, in number order
SearchAnswers ==
    { sorted(S) : S \in SUBSET { p \in PullNumbers :
        pulls[p].merged /\ \E i \in DOMAIN pulls[p].body : pulls[p].body[i].num = IssueNumber } }

Req(strategy, call, p) == [strategy |-> strategy, call |-> call, pr |-> p]
PullReqs(strategy, fetched) ==
    [i \in DOMAIN fetched |-> Req(strategy, "get_pull_request", fetched[i])]

FetchTimeline ==
    /\ pc = "timeline"
    /\ same_repo_prs' = SameRepoPrs(timeline)
    /\ closing_commit_id' = ClosingCommitId(timeline)
    /\ requests' = Append(requests, Req(0, "get_issue_timeline", 0))
    /\ pc' = "strategy1"
    /\ UNCHANGED <<timeline, pulls, search_items, merged_prs, unique_prs, yielded>>
    /\ UNCHANGED notLinkedVars

Strategy1 ==
    /\ pc = "strategy1"
    /\ LET run == IF Strategy1Applies(closing_commit_id, same_repo_prs)
                  THEN Strategy1Loop(sorted(same_repo_prs), 1, closing_commit_id)
                  ELSE [found |-> <<>>, fetched |-> <<>>]
       IN /\ merged_prs' = merged_prs \o run.found
          /\ requests' = requests \o PullReqs(1, run.fetched)
          /\ yielded' = [yielded EXCEPT ![1] = run.found]
    /\ pc' = "strategy2"
    /\ UNCHANGED <<timeline, pulls, search_items, same_repo_prs, closing_commit_id, unique_prs>>
    /\ UNCHANGED notLinkedVars

Strategy2 ==
    /\ pc = "strategy2"
    /\ LET run == IF Strategy2Applies(merged_prs, same_repo_prs)
                  THEN Strategy2Loop(sorted(same_repo_prs), 1)
                  ELSE [found |-> <<>>, fetched |-> <<>>]
       IN /\ merged_prs' = merged_prs \o run.found
          /\ requests' = requests \o PullReqs(2, run.fetched)
          /\ yielded' = [yielded EXCEPT ![2] = run.found]
    /\ pc' = "strategy3"
    /\ UNCHANGED <<timeline, pulls, search_items, same_repo_prs, closing_commit_id, unique_prs>>
    /\ UNCHANGED notLinkedVars

Strategy3 ==
    /\ pc = "strategy3"
    /\ LET run == IF Strategy3Applies(merged_prs, same_repo_prs)
                  THEN Strategy3Loop(sorted(same_repo_prs), 1)
                  ELSE [found |-> <<>>, fetched |-> <<>>]
       IN /\ merged_prs' = merged_prs \o run.found
          /\ requests' = requests \o PullReqs(3, run.fetched)
          /\ yielded' = [yielded EXCEPT ![3] = run.found]
    /\ pc' = "strategy4"
    /\ UNCHANGED <<timeline, pulls, search_items, same_repo_prs, closing_commit_id, unique_prs>>
    /\ UNCHANGED notLinkedVars

\* Strategy 4 and the return: the search (when nothing was found), then dedupe
Strategy4 ==
    /\ pc = "strategy4"
    /\ IF Strategy4Applies(merged_prs)
       THEN \E items \in SearchAnswers :
              /\ search_items' = items
              /\ merged_prs' = merged_prs \o Strategy4Loop(items, 1)
              /\ requests' = Append(requests, Req(4, "search_issues", 0))
              /\ yielded' = [yielded EXCEPT ![4] = Strategy4Loop(items, 1)]
       ELSE UNCHANGED <<search_items, merged_prs, requests, yielded>>
    /\ unique_prs' = dedupe(merged_prs')
    /\ pc' = "linked_done"
    /\ UNCHANGED <<timeline, pulls, same_repo_prs, closing_commit_id>>
    /\ UNCHANGED notLinkedVars

InitLinkedLocals ==
    /\ search_items = <<>>
    /\ same_repo_prs = {}
    /\ closing_commit_id = NoCommit
    /\ merged_prs = <<>>
    /\ unique_prs = <<>>
    /\ requests = <<>>
    /\ yielded = [s \in 1..4 |-> <<>>]

(***************************************************************************)
(* IssueAnalyzer.analyze_issue                                             *)
(***************************************************************************)
Reject(a, reason) == [a EXCEPT !.rejection_reasons = Append(@, reason)]

\* the repository gates
RepoGate(a, ri) ==
    LET a1 == [a EXCEPT !.repo_stars = ri.stargazers_count, !.repo_size_kb = ri.size]
        a2 == IF a1.repo_stars < analyzer.min_stars
              THEN Reject(a1, "Stars below minimum") ELSE a1
    IN IF a2.repo_size_kb > analyzer.max_size_mb * KbPerMb
       THEN Reject(a2, "Repo size exceeds maximum") ELSE a2

\* the issue gates
IssueGate(a, d) ==
    LET purity == check_issue_text_purity(d.body)
        a1 == [a EXCEPT !.issue_body = d.body]
        a2 == IF d.state # "closed" THEN Reject(a1, "Issue is not closed") ELSE a1
        a3 == [a2 EXCEPT !.has_images = purity.has_images, !.has_links = purity.has_links,
                         !.link_count = purity.link_count,
                         !.is_pure_text = ~purity.has_images /\ ~purity.has_links]
        a4 == IF purity.has_images
              THEN Reject(a3, "Issue description contains images") ELSE a3
        a5 == IF purity.has_links
              THEN Reject(a4, "Issue description contains links") ELSE a4
    IN IF d.body = <<>> \/ BodyLen(d.body) < MinBodyLength
       THEN Reject(a5, "Issue description is too short or empty") ELSE a5

RECURSIVE SumSeq(_)
SumSeq(s) == IF s = <<>> THEN 0 ELSE s[1] + SumSeq(Tail(s))

Count(s, Test(_)) == Cardinality({ i \in DOMAIN s : Test(s[i]) })
IsTest(fc) == fc.is_test
IsDoc(fc) == fc.is_doc

\* the running maximum of _analyze_pr's loop: a later file replaces the
\* maximum only when it is strictly larger
RECURSIVE MaxChangeLoop(_, _, _)
MaxChangeLoop(fcs, i, best) ==
    IF i > Len(fcs) THEN best
    ELSE MaxChangeLoop(fcs, i + 1,
            IF total_changes(fcs[i]) > best.changes
            THEN [changes |-> total_changes(fcs[i]), file |-> fcs[i].filename]
            ELSE best)

\* any(fc.total_changes >= min_substantial for fc in python_code_files)
HasSubstantial(python_code_files) ==
    \E i \in DOMAIN python_code_files :
        total_changes(python_code_files[i]) >= analyzer.min_substantial

\* the guard of the "no substantial change" rejection
NoSubstantialGuard(python_code_files) ==
    python_code_files # <<>> /\ ~HasSubstantial(python_code_files)

\* _analyze_pr, after the pull request was found merged
AnalyzePrFiles(a, files) ==
    LET fcs == analyze_file_changes(files)
        python_code_files == SelectSeq(fcs, is_code_python)
        best == MaxChangeLoop(fcs, 1, [changes |-> a.max_file_changes, file |-> a.max_change_file])
        a1 == [a EXCEPT !.file_changes = fcs,
                        !.total_test_files_changed = Count(fcs, IsTest),
                        !.total_doc_files_changed = Count(fcs, IsDoc),
                        !.total_additions = SumSeq([i \in DOMAIN fcs |-> fcs[i].additions]),
                        !.total_deletions = SumSeq([i \in DOMAIN fcs |-> fcs[i].deletions]),
                        !.max_file_changes = best.changes,
                        !.max_change_file = best.file,
                        !.total_python_code_files = Len(python_code_files)]
        a2 == IF a1.total_python_code_files < analyzer.min_python_files
              THEN Reject(a1, "Too few Python code files changed") ELSE a1
    IN IF NoSubstantialGuard(python_code_files)
       THEN Reject(a2, "No Python code file has substantial changes") ELSE a2

\* tiers whose top one earns nothing
TierBand(x, hi, mid, lo, whi, wmid, wlo) ==
    IF x > hi THEN 0 ELSE IF x > mid THEN wmid ELSE IF x > lo THEN wlo ELSE 0

Tier(x, hi, mid, lo, whi, wmid, wlo) ==
    IF x > hi THEN whi ELSE IF x > mid THEN wmid ELSE IF x > lo THEN wlo ELSE 0

MinOf(a, b) == IF a < b THEN a ELSE b

\* _compute_complexity
compute_complexity(a) ==
    LET code == SelectSeq(a.file_changes, is_code_python)
        total_code_changes == SumSeq([i \in DOMAIN code |-> total_changes(code[i])])
        churn == IF total_code_changes > 200 THEN 20
                 ELSE IF total_code_changes > 100 THEN 15
                 ELSE Tier(total_code_changes, 100, 50, 20, 15, 10, 5)
        unique_dirs == { code[i].filename.dirs : i \in { j \in DOMAIN code : code[j].filename.dirs # <<>> } }
    IN [a EXCEPT !.complexity_score =
            MinOf(a.total_python_code_files * 5, 30)
            + churn
            + Tier(a.max_file_changes, 100, 50, 20, 10, 7, 4)
            + Tier(BodyLen(a.issue_body), 500, 200, 100, 10, 7, 4)
            + MinOf(Cardinality(unique_dirs) * 3, 15)
            + (IF a.total_test_files_changed > 0 THEN 5 ELSE 0)]

\* the end of analyze_issue: complexity, then the verdict
Finish(a) ==
    LET c == compute_complexity(a)
    IN [c EXCEPT !.meets_criteria = (c.rejection_reasons = <<>>)]

\* no early return at all
NeverEarly(a) == FALSE

\* if early_reject and analysis.rejection_reasons: return analysis
EarlyReturn(a) == early_reject /\ a.rejection_reasons # <<>>

\* analyze_issue up to the call of _find_linked_prs
AnalyzeGates ==
    /\ pc = "analyze"
    /\ \E ri \in RepoInfos :
         /\ repo_info' = ri
         /\ IF ~ri.found
            THEN /\ analysis' = Reject(EmptyAnalysis, "Repository not found")
                 /\ pc' = "done"
                 /\ UNCHANGED issue_data
            ELSE LET a1 == RepoGate(EmptyAnalysis, ri)
                 IN IF EarlyReturn(a1)
                    THEN /\ analysis' = a1
                         /\ pc' = "done"
                         /\ UNCHANGED issue_data
                    ELSE \E d \in IssueDatas :
                           /\ issue_data' = d
                           /\ IF ~d.found
                              THEN analysis' = Reject(a1, "Issue not found") /\ pc' = "done"
                              ELSE IF d.pull_request
                              THEN analysis' = Reject(a1, "This is a pull request, not an issue")
                                   /\ pc' = "done"
                              ELSE LET a2 == IssueGate(a1, d)
                                   IN /\ analysis' = a2
                                      /\ pc' = IF EarlyReturn(a2)
                                               THEN "done" ELSE "timeline"
    /\ UNCHANGED <<timeline, pulls, search_items, same_repo_prs, closing_commit_id,
                   merged_prs, unique_prs, requests, yielded>>
    /\ UNCHANGED <<analyzer, early_reject, pr_files>>
    /\ UNCHANGED notAnalyzerVars

\* analyze_issue from the return of _find_linked_prs on
AnalyzeLinked ==
    /\ pc = "linked_done"
    /\ LET a1 == [analysis EXCEPT !.linked_pr_count = Len(unique_prs)]
       IN IF Len(unique_prs) = 0
          THEN /\ analysis' = Reject(a1, "No linked merged PR found")
               /\ UNCHANGED <<pr_files, requests>>
          ELSE LET a2 == IF Len(unique_prs) > 1
                         THEN Reject(a1, "Multiple merged PRs linked") ELSE a1
                   pr_data == get_pull_request(unique_prs[1])
                   a3 == [a2 EXCEPT !.pr_number = unique_prs[1], !.pr_merged = pr_data.merged]
               IN IF ~pr_data.merged
                  THEN /\ analysis' = Finish(Reject(a3, "PR was not merged"))
                       /\ requests' = Append(requests, Req(5, "get_pull_request", unique_prs[1]))
                       /\ UNCHANGED pr_files
                  ELSE \E files \in PrFilesAnswers :
                         /\ pr_files' = files
                         /\ analysis' = Finish(AnalyzePrFiles(a3, files))
                         /\ requests' = requests \o
                               << Req(5, "get_pull_request", unique_prs[1]),
                                  Req(5, "get_pr_files", unique_prs[1]) >>
    /\ pc' = "done"
    /\ UNCHANGED <<timeline, pulls, search_items, same_repo_prs, closing_commit_id,
                   merged_prs, unique_prs, yielded>>
    /\ UNCHANGED <<analyzer, early_reject, repo_info, issue_data>>
    /\ UNCHANGED notAnalyzerVars

\* the upstream analyze_issue is run on: the lowest pull varies, the others
\* are merged and close the issue
AnalyzerPulls ==
    { db \in PullRecords :
        /\ db[Min(PullNumbers)].body \in
              { <<>>, <<Fix(IssueNumber)>>, <<Fix(IssueNumber), Fix(OtherIssue)>> }
        /\ \A p \in PullNumbers \ {Min(PullNumbers)} :
              db[p] = [merged |-> TRUE, body |-> <<Fix(IssueNumber)>>] }

\* the timelines analyze_issue is run on: the cross-references of some pulls,
\* then at most one closed event, by the merge of the lowest pull
AnalyzerTimelines(db) ==
    { [i \in 1..Len(xs) |-> CrossRef(xs[i], "own", db[xs[i]].merged)] \o cs :
        xs \in { sorted(S) : S \in SUBSET PullNumbers },
        cs \in { <<>>, <<ClosedEvent(MergeCommitSha[Min(PullNumbers)])>> } }

(***************************************************************************)
(* AsyncGitHubClient.analyze_issue  (async_client.py, issue_analyzer.py)   *)
(***************************************************************************)
\* the built-in profiles; scores in half points
PR_WRITER_PROFILE ==
    [name |-> "pr_writer", require_pure_body |-> TRUE, require_one_way_close |-> TRUE,
     min_code_files_changed |-> 4, min_substantial_changes |-> 5,
     pure_body_score |-> 4, code_files_score |-> 6, substantial_changes_score |-> 4,
     good_title_score |-> 1, good_description_score |-> 1, min_score |-> 10]
GENERAL_PROFILE ==
    [PR_WRITER_PROFILE EXCEPT !.name = "general", !.require_pure_body = FALSE,
                              !.require_one_way_close = FALSE,
                              !.min_code_files_changed = 2,
                              !.min_substantial_changes = 3, !.min_score = 6]
BUILTIN_PROFILES == {PR_WRITER_PROFILE, GENERAL_PROFILE}

\* an issue body: None (known = FALSE) or a text
NoBody == [known |-> FALSE, pieces |-> <<>>]
Body(pieces) == [known |-> TRUE, pieces |-> pieces]
AsyncIssueBodies == { NoBody, Body(<<Text(60)>>), Body(<<Text(40), Url>>) }
AsyncIssues ==
    [number : {IssueNumber}, state : {"open", "closed"}, body : AsyncIssueBodies,
     title_len : {9, 10}]

\* what get_issue_detail answers: None, or the issue as scraped from its page
NoDetail == [found |-> FALSE,
             issue |-> [number |-> IssueNumber, state |-> "closed", body |-> NoBody,
                        title_len |-> 0]]
IssueDetails ==
    {NoDetail} \cup
    [found : {TRUE},
     issue : [number : {IssueNumber}, state : {"closed"},
              body : AsyncIssueBodies \ {NoBody}, title_len : {10}]]

SrcApi == Path(<<"src">>, <<"api">>, "py")
SrcDb == Path(<<"src">>, <<"db">>, "py")
TwoSmallCodeFiles == << Change(SrcCore, 1, 1), Change(SrcUtil, 1, 1) >>
FourCodeFiles ==
    << Change(SrcCore, 19, 1), Change(SrcUtil, 1, 1), Change(SrcApi, 1, 1),
       Change(SrcDb, 1, 1) >>
AsyncFiles == { TwoSmallCodeFiles, FourCodeFiles }

\* the pull request GET /repos/{repo}/pulls/{n} answers, with its files
AsyncPullBodies ==
    { <<>>, <<Fix(IssueNumber)>>, <<Fix(IssueNumber), Fix(IssueNumber)>>,
      <<Fix(IssueNumber), Fix(OtherIssue)>> }
NoPull == [found |-> FALSE, state |-> "", merged |-> FALSE, body |-> <<>>, files |-> <<>>]
AsyncPullData ==
    {NoPull} \cup
    { [found |-> TRUE, state |-> st[1], merged |-> st[2], body |-> b, files |-> f] :
        st \in { <<"open", FALSE>>, <<"closed", FALSE>>, <<"closed", TRUE>> },
        b \in AsyncPullBodies, f \in AsyncFiles }

\* the pulls the issue's timeline names, the pulls its HTML page names (read
\* only when the timeline names none), and every pull's data
Upstreams ==
    { u \in [timeline_prs : SUBSET PullNumbers, html_prs : {{}, PullNumbers},
             pulls : [PullNumbers -> AsyncPullData]] :
        u.timeline_prs # {} => u.html_prs = {} }

\* issue_analyzer.py: substring patterns, on a path dirs/word_word.ext
is_test_file(f) ==
    \/ \E i \in 1..(Len(f.stem) - 1) : f.stem[i] = "test"
    \/ \E i \in 2..Len(f.stem) : f.stem[i] = "test"
    \/ "tests" \in Range(f.dirs)
    \/ \E i \in 2..Len(f.dirs) : f.dirs[i] = "test"
    \/ (f.stem # <<>> /\ f.stem[Len(f.stem)] \in {"conftest", "spec"} /\ f.ext = "py")
    \/ Range(f.stem) \cap {"unittest", "pytest"} # {}
is_doc_file(f) ==
    \/ Range(f.stem) \cap {"readme", "changelog", "license", "contributing"} # {}
    \/ Range(f.dirs) \cap {"readme", "changelog", "license", "contributing", "docs"} # {}
    \/ f.ext \in {"md", "rst", "txt"}
    \/ (f.stem = <<"setup">> /\ f.ext = "cfg")
    \/ (f.stem = <<"pyproject">> /\ f.ext = "toml")
is_code_python_file(f) == f.ext = "py" /\ ~is_test_file(f) /\ ~is_doc_file(f)

\* _body_has_links_or_images: URL_PATTERN (config.py)
body_has_links_or_images(body) ==
    /\ body.known
    /\ body.pieces # <<>>
    /\ \E i \in DOMAIN body.pieces : body.pieces[i].kind \in {"url", "image_url", "md_image"}

has_substantial_changes(files, min_changes) ==
    \E i \in DOMAIN files :
        /\ is_code_python_file(files[i].filename)
        /\ files[i].additions + files[i].deletions >= min_changes

count_code_python_files(files) ==
    Cardinality({ i \in DOMAIN files : is_code_python_file(files[i].filename) })

\* get_linked_prs: the timeline first, the HTML page when it names no pull
get_linked_prs(u) ==
    IF u.timeline_prs # {} THEN sorted(u.timeline_prs) ELSE sorted(u.html_prs)

\* closes = [int(m) for m in _CLOSES_KW.findall(body)]: a list, in order
RECURSIVE closes_of(_)
closes_of(body) ==
    IF body = <<>> THEN <<>>
    ELSE (IF body[1].kw THEN <<body[1].num>> ELSE <<>>) \o closes_of(Tail(body))

\* get_pr_detail: None (found = FALSE) or the PRAnalysis
NoPr == [found |-> FALSE, number |-> 0, state |-> "", merged |-> FALSE, body |-> <<>>,
         files |-> <<>>, closes_issues |-> <<>>]
get_pr_detail(u, n) ==
    IF ~u.pulls[n].found THEN NoPr
    ELSE [found |-> TRUE, number |-> n, state |-> u.pulls[n].state,
          merged |-> u.pulls[n].merged, body |-> u.pulls[n].body,
          files |-> u.pulls[n].files, closes_issues |-> closes_of(u.pulls[n].body)]

\* Gate 4's test of one pull request, the length test as written
ClosesMultiple(closes) == Len(closes) > 1
NotClosingThisIssue(pr, n) == n \notin Range(pr.closes_issues)

NoResult ==
    [issue |-> [number |-> IssueNumber, state |-> "", body |-> NoBody, title_len |-> 0],
     pr_analysis |-> NoPr, passes |-> FALSE, reasons |-> <<>>, score |-> 0,
     complexity_hint |-> "",
     details |-> [code_python_files_changed |-> 0, total_additions |-> 0,
                  total_deletions |-> 0]]

\* Gates 1 to 3: closed, body fetched when missing, pure body, linked pulls
AsyncGates ==
    /\ apc = "gates"
    /\ IF issue.state # "closed"
       THEN /\ result' = [NoResult EXCEPT !.issue = issue, !.reasons = <<"Issue is not closed">>]
            /\ apc' = "done"
            /\ UNCHANGED <<issue, pr_nums, reasons, score>>
       ELSE \E detail \in IF issue.body.known THEN {NoDetail} ELSE IssueDetails :
              LET fetched == IF ~issue.body.known /\ detail.found THEN detail.issue ELSE issue
                  impure == profile.require_pure_body /\ body_has_links_or_images(fetched.body)
                  r == IF impure THEN <<"Issue body contains links or images">>
                       ELSE <<"Body is pure text">>
                  sc == IF impure THEN 0 ELSE profile.pure_body_score
                  nums == get_linked_prs(upstream)
              IN /\ issue' = fetched
                 /\ pr_nums' = nums
                 /\ score' = sc
                 /\ IF nums = <<>>
                    THEN /\ reasons' = Append(r, "No PR found that references this issue")
                         /\ result' = [NoResult EXCEPT !.issue = fetched, !.reasons = reasons',
                                                       !.score = sc]
                         /\ apc' = "done"
                    ELSE /\ reasons' = r
                         /\ apc' = "loop"
                         /\ UNCHANGED result
    /\ UNCHANGED <<profile, upstream, idx, best_pr>>
    /\ UNCHANGED notAsyncVars

\* Gate 4: one turn of the loop over pr_nums
AsyncLoopStep ==
    /\ apc = "loop"
    /\ idx <= Len(pr_nums)
    /\ ~best_pr.found
    /\ LET pr == get_pr_detail(upstream, pr_nums[idx])
       IN IF ~pr.found \/ NotClosingThisIssue(pr, issue.number)
          THEN UNCHANGED <<best_pr, reasons>>
          ELSE IF profile.require_one_way_close /\ ClosesMultiple(pr.closes_issues)
          THEN /\ reasons' = Append(reasons, "PR closes multiple issues")
               /\ UNCHANGED best_pr
          ELSE /\ best_pr' = pr
               /\ UNCHANGED reasons
    /\ idx' = idx + 1
    /\ UNCHANGED <<issue, profile, upstream, pr_nums, score, result, apc>>
    /\ UNCHANGED notAsyncVars

ComplexityHint(total) ==
    IF total > 100 THEN "High complexity"
    ELSE IF total > 50 THEN "Medium-high complexity"
    ELSE IF total > 20 THEN "Medium complexity"
    ELSE "May be too simple"

\* the scoring and the verdict of an issue whose pull request was chosen
Scored(iss, bp, prof, rs, sc0) ==
    LET code_files == count_code_python_files(bp.files)
        enough == code_files >= prof.min_code_files_changed
        substantial == has_substantial_changes(bp.files, prof.min_substantial_changes)
        total_adds == SumSeq([i \in DOMAIN bp.files |-> bp.files[i].additions])
        total_dels == SumSeq([i \in DOMAIN bp.files |-> bp.files[i].deletions])
        len == BodyLen(iss.body.pieces)
        r1 == Append(rs, IF enough THEN "Python code files changed"
                         ELSE "Too few Python code files changed")
        r2 == Append(r1, IF substantial
                         THEN "At least one code file has substantial changes"
                         ELSE "No code file has substantial changes")
        r3 == IF iss.title_len >= 10 THEN r2
              ELSE Append(r2, "Issue title may be too vague")
        r4 == IF iss.body.known /\ len > 50
              THEN Append(r3, "Issue has substantive description")
              ELSE IF ~iss.body.known \/ len < 20
              THEN Append(r3, "Issue description may be too brief")
              ELSE r3
        sc == sc0
              + (IF enough THEN prof.code_files_score ELSE 0)
              + (IF substantial THEN prof.substantial_changes_score ELSE 0)
              + (IF iss.title_len >= 10 THEN prof.good_title_score ELSE 0)
              + (IF iss.body.known /\ len > 50 THEN prof.good_description_score ELSE 0)
    IN [issue |-> iss, pr_analysis |-> bp,
        passes |-> enough /\ substantial,
        reasons |-> r4, score |-> sc,
        complexity_hint |-> ComplexityHint(total_adds + total_dels),
        details |-> [code_python_files_changed |-> code_files,
                     total_additions |-> total_adds,
                     total_deletions |-> total_dels]]

\* the result when the loop chose no pull request
NoneChosen(iss, rs, sc0) ==
    [NoResult EXCEPT !.issue = iss, !.reasons = Append(rs, "No PR with one-way close"),
                     !.score = sc0]

\* after the loop: no pull chosen, or the scoring and the verdict
AsyncFinish ==
    /\ apc = "loop"
    /\ idx > Len(pr_nums) \/ best_pr.found
    /\ result' = IF ~best_pr.found THEN NoneChosen(issue, reasons, score)
                 ELSE Scored(issue, best_pr, profile, reasons, score)
    /\ reasons' = result'.reasons
    /\ score' = result'.score
    /\ apc' = "done"
    /\ UNCHANGED <<issue, profile, upstream, pr_nums, idx, best_pr>>
    /\ UNCHANGED notAsyncVars

(***************************************************************************)
(* get_single_closing_pr  (github_queries.py)                              *)
(***************************************************************************)
MaxNodes == 2                       \* timeline nodes in the GraphQL answer

\* a timeline node: its __typename, its closer's __typename ("" for none),
\* the closer's number and its closingIssuesReferences
Node(typename, closer, number, refs) ==
    [typename |-> typename, closer |-> closer, number |-> number, refs |-> refs]
ClosingRefs == { <<>>, <<IssueNumber>>, <<OtherIssue>>, <<IssueNumber, OtherIssue>> }
TimelineNodes ==
    { Node("ReopenedEvent", "", 0, <<>>), Node("ClosedEvent", "", 0, <<>>),
      Node("ClosedEvent", "Commit", 0, <<>>) }
    \cup { Node("ClosedEvent", "PullRequest", p, r) : p \in PullNumbers, r \in ClosingRefs }

\* the loop over nodes: the ClosedEvents whose closer is a pull request
RECURSIVE ClosingPrs(_)
ClosingPrs(ns) ==
    IF ns = <<>> THEN <<>>
    ELSE (IF ns[1].typename = "ClosedEvent" /\ ns[1].closer = "PullRequest"
          THEN << [number |-> ns[1].number, closes_issue_numbers |-> ns[1].refs] >>
          ELSE <<>>) \o ClosingPrs(Tail(ns))

\* closing_prs = [pr for pr in closing_prs if pr.closes_issue_numbers]
HasClosingRefs(pr) == pr.closes_issue_numbers # <<>>
WithClosingRefs(prs) == SelectSeq(prs, HasClosingRefs)

NoClosingPr == [found |-> FALSE, number |-> 0, closes_issue_numbers |-> <<>>]

GetSingleClosingPr ==
    /\ cpc = "call"
    /\ LET closing_prs == WithClosingRefs(ClosingPrs(nodes))
       IN closing_pr' =
            IF Len(closing_prs) # 1 THEN NoClosingPr
            ELSE IF closing_prs[1].closes_issue_numbers # <<IssueNumber>> THEN NoClosingPr
            ELSE [found |-> TRUE, number |-> closing_prs[1].number,
                  closes_issue_numbers |-> closing_prs[1].closes_issue_numbers]
    /\ cpc' = "returned"
    /\ UNCHANGED nodes
    /\ UNCHANGED notCloserVars

(***************************************************************************)
(* IssueFinder._analyze_issue  (finder.py)                                 *)
(***************************************************************************)
MaxIssues == 2                      \* issues one IssueFinder analyses

\* FinderConfig()
FinderConfig ==
    [min_python_files_changed |-> 4, min_single_python_file_changes |-> 35,
     min_issue_body_length |-> 80, min_complexity_score |-> 50]

RejectionKeys ==
    { "issue_not_closed", "issue_no_title", "issue_body_short", "issue_links_or_images",
      "timeline_fetch", "pull_search", "linked_pull_count", "pull_fetch",
      "pull_match_count", "pull_files_fetch", "python_non_test_file_count",
      "python_single_file_changes", "complexity" }

\* the issue payload: state, title present, length of the stripped body,
\* and whether title and body hold a link or an image
FinderIssues ==
    [state : {"closed", "open"}, title : BOOLEAN,
     body_length : {FinderConfig.min_issue_body_length - 1, FinderConfig.min_issue_body_length},
     links_or_images : BOOLEAN]

\* filters.contains_links_or_images, applied to the payload's title and body
contains_links_or_images(payload) == payload.links_or_images

\* list(dict.fromkeys(values))
dedupe_preserve_order(values) == dedupe(values)

\* the closing references of a pull-request body, in order
extract_closing_issue_numbers(body) == dedupe(closes_of(body))

\* the answers of the client: an error (GitHubClientError) or the payload
FinderTimelines ==
    [error : {TRUE}, pulls : {<<>>}] \cup [error : {FALSE}, pulls : SeqsUpTo(PullNumbers, 2)]
FinderSearches ==
    [error : {TRUE}, numbers : {<<>>}]
    \cup [error : {FALSE}, numbers : { sorted(S) : S \in SUBSET PullNumbers }]
FinderPullBodies == { <<>>, <<Fix(IssueNumber)>>, <<Fix(IssueNumber), Fix(OtherIssue)>> }
FinderPullPayloads ==
    [PullNumbers -> [error : {TRUE}, merged_at : {FALSE}, body : {<<>>}]
                    \cup [error : {FALSE}, merged_at : BOOLEAN, body : FinderPullBodies]]
\* the files of the pull, as counted by is_python_non_test_non_doc_file, the
\* largest change among them, and the score score_complexity gives
FinderFileAnswers ==
    [error : {TRUE}, python_non_test_files : {0}, max_changes : {0}, score : {0}]
    \cup [error : {FALSE},
          python_non_test_files : {FinderConfig.min_python_files_changed - 1,
                                   FinderConfig.min_python_files_changed},
          max_changes : {FinderConfig.min_single_python_file_changes - 1,
                         FinderConfig.min_single_python_file_changes},
          score : {FinderConfig.min_complexity_score - 1, FinderConfig.min_complexity_score}]

\* _reject(key), for a run of keys
RECURSIVE CountAll(_, _)
CountAll(counts, ks) ==
    IF ks = <<>> THEN counts
    ELSE CountAll([counts EXCEPT ![ks[1]] = @ + 1], Tail(ks))

\* the loop over pull_numbers: the keys rejected and the valid payloads
RECURSIVE PullLoop(_, _, _)
PullLoop(numbers, i, payloads) ==
    IF i > Len(numbers) THEN [keys |-> <<>>, valid |-> <<>>]
    ELSE LET rest == PullLoop(numbers, i + 1, payloads)
             pull_payload == payloads[numbers[i]]
         IN IF pull_payload.error
            THEN [keys |-> <<"pull_fetch">> \o rest.keys, valid |-> rest.valid]
            ELSE IF ~pull_payload.merged_at
            THEN rest
            ELSE IF extract_closing_issue_numbers(pull_payload.body) = <<IssueNumber>>
            THEN [keys |-> rest.keys, valid |-> <<numbers[i]>> \o rest.valid]
            ELSE rest

\* the condition of the "pull_match_count" rejection
MatchCountRejects(valid) == Len(valid) # 1

\* what upstream held for the issue: how many of the pulls named for it are
\* merged and close exactly this issue
LinkageCase(numbers, payloads) ==
    LET q == { p \in Range(numbers) :
                 /\ ~payloads[p].error
                 /\ payloads[p].merged_at
                 /\ ClosedByBody(payloads[p].body) = {IssueNumber} }
    IN IF Cardinality(q) = 0 THEN "absent"
       ELSE IF Cardinality(q) = 1 THEN "unique" ELSE "ambiguous"

\* the end of one _analyze_issue call: its case and keys go to the history
FinishIssue(case, ks) ==
    /\ rejection_counts' = CountAll(rejection_counts, ks)
    /\ cases' = Append(cases, case)
    /\ recorded' = Append(recorded, ks)
    /\ keys' = <<>>
    /\ pull_numbers' = <<>>
    /\ valid_pull_payloads' = <<>>
    /\ fpc' = IF Len(cases) + 1 < MaxIssues THEN "gates" ELSE "done"

\* the gates on the issue payload
FinderGates ==
    /\ fpc = "gates"
    /\ \E payload \in FinderIssues :
         IF payload.state # "closed" THEN FinishIssue("gate", <<"issue_not_closed">>)
         ELSE IF ~payload.title THEN FinishIssue("gate", <<"issue_no_title">>)
         ELSE IF payload.body_length < FinderConfig.min_issue_body_length
         THEN FinishIssue("gate", <<"issue_body_short">>)
         ELSE IF contains_links_or_images(payload)
         THEN FinishIssue("gate", <<"issue_links_or_images">>)
         ELSE /\ fpc' = "link"
              /\ UNCHANGED <<rejection_counts, pull_numbers, valid_pull_payloads, keys,
                             cases, recorded>>
    /\ UNCHANGED notFinderVars

\* timeline, search, and the choice among the pulls they name
FinderLink ==
    /\ fpc = "link"
    /\ \E tl \in FinderTimelines, sr \in FinderSearches, payloads \in FinderPullPayloads :
         IF tl.error THEN FinishIssue("fetch_error", <<"timeline_fetch">>)
         ELSE LET linked_pull_numbers == dedupe_preserve_order(tl.pulls)
                  search_pull_numbers == IF sr.error THEN <<>>
                                         ELSE dedupe_preserve_order(sr.numbers)
                  k1 == IF sr.error THEN <<"pull_search">> ELSE <<>>
                  numbers == dedupe_preserve_order(linked_pull_numbers \o search_pull_numbers)
                  loop == PullLoop(numbers, 1, payloads)
                  case == LinkageCase(numbers, payloads)
              IN IF numbers = <<>>
                 THEN FinishIssue(case, Append(k1, "linked_pull_count"))
                 ELSE IF MatchCountRejects(loop.valid)
                 THEN FinishIssue(case, Append(k1 \o loop.keys, "pull_match_count"))
                 ELSE /\ pull_numbers' = numbers
                      /\ valid_pull_payloads' = loop.valid
                      /\ keys' = k1 \o loop.keys
                      /\ fpc' = "files"
                      /\ UNCHANGED <<rejection_counts, cases, recorded>>
    /\ UNCHANGED notFinderVars

\* the files of the one valid pull, and the complexity score
FinderFiles ==
    /\ fpc = "files"
    /\ \E files \in FinderFileAnswers :
         IF files.error THEN FinishIssue("unique", Append(keys, "pull_files_fetch"))
         ELSE IF files.python_non_test_files < FinderConfig.min_python_files_changed
         THEN FinishIssue("unique", Append(keys, "python_non_test_file_count"))
         ELSE IF files.max_changes < FinderConfig.min_single_python_file_changes
         THEN FinishIssue("unique", Append(keys, "python_single_file_changes"))
         ELSE IF files.score < FinderConfig.min_complexity_score
         THEN FinishIssue("unique", Append(keys, "complexity"))
         ELSE FinishIssue("unique", keys)
    /\ UNCHANGED notFinderVars

(***************************************************************************)
(* AsyncGitHubClient._get: slots, throttle lock, attempts                  *)
(***************************************************************************)
NumCallers == 2                     \* tasks calling _get on one client
MaxAttempts == 3                    \* for attempt in range(3)
Callers == 1..NumCallers
Ceilings == {1, 2}                  \* the api and scrape ceilings tried

\* asyncio.Semaphore(n) and asyncio.Lock(): waiters are served first come
Semaphore(n) == [value |-> n, waiters |-> <<>>]
SemLockedNever(sem) == FALSE
SemLocked(sem) == sem.value = 0 \/ sem.waiters # <<>>
SemTake(sem) == [sem EXCEPT !.value = @ - 1]
SemEnqueue(sem, c) == [sem EXCEPT !.waiters = Append(@, c)]
SemRelease(sem) == [sem EXCEPT !.value = @ + 1]

IdleCall == [pc |-> "idle", is_api |-> FALSE, attempt |-> 0, ret |-> ""]

\* the suspension points between acquiring and releasing the slot
InSlot == {"wait_lock", "throttle_sleep", "send", "backoff"}

\* sem = self._api_sem if is_api else self._scrape_sem
SemOf(is_api) == IF is_api THEN api_sem ELSE scrape_sem
SetSem(is_api, new) ==
    IF is_api
    THEN api_sem' = new /\ UNCHANGED scrape_sem
    ELSE scrape_sem' = new /\ UNCHANGED api_sem

\* inside the lock: sleep when the last request is too recent (the lock stays
\* held), or leave the lock and send
ThrottlePhase(c, call, waiters) ==
    \E too_recent \in BOOLEAN :
        /\ lock' = [locked |-> too_recent, waiters |-> waiters]
        /\ calls' = [calls EXCEPT ![c] =
                        [call EXCEPT !.pc = IF too_recent THEN "throttle_sleep" ELSE "send"]]

\* async with self._lock, by a caller that has its slot
LockPhase(c, call) ==
    IF ~lock.locked /\ lock.waiters = <<>>
    THEN ThrottlePhase(c, call, <<>>)
    ELSE /\ lock' = [lock EXCEPT !.waiters = Append(@, c)]
         /\ calls' = [calls EXCEPT ![c] = [call EXCEPT !.pc = "wait_lock"]]

\* _get up to its first suspension: async with sem takes a slot and goes on
\* to the lock, or waits in line
Call(c) ==
    /\ calls[c].pc = "idle"
    /\ \E is_api \in BOOLEAN :
         LET call == [IdleCall EXCEPT !.is_api = is_api]
         IN IF ~SemLocked(SemOf(is_api))
            THEN /\ SetSem(is_api, SemTake(SemOf(is_api)))
                 /\ LockPhase(c, call)
            ELSE /\ SetSem(is_api, SemEnqueue(SemOf(is_api), c))
                 /\ calls' = [calls EXCEPT ![c] = [call EXCEPT !.pc = "wait_sem"]]
                 /\ UNCHANGED lock
    /\ UNCHANGED client
    /\ UNCHANGED notGetVars

\* the first waiter takes the slot a release made free
SemResume(c) ==
    /\ calls[c].pc = "wait_sem"
    /\ SemOf(calls[c].is_api).waiters # <<>>
    /\ Head(SemOf(calls[c].is_api).waiters) = c
    /\ SemOf(calls[c].is_api).value > 0
    /\ SetSem(calls[c].is_api,
              [value |-> SemOf(calls[c].is_api).value - 1,
               waiters |-> Tail(SemOf(calls[c].is_api).waiters)])
    /\ LockPhase(c, calls[c])
    /\ UNCHANGED client
    /\ UNCHANGED notGetVars

\* the first waiter takes the lock a release made free
LockResume(c) ==
    /\ calls[c].pc = "wait_lock"
    /\ lock.waiters # <<>>
    /\ Head(lock.waiters) = c
    /\ ~lock.locked
    /\ ThrottlePhase(c, calls[c], Tail(lock.waiters))
    /\ UNCHANGED <<client, api_sem, scrape_sem>>
    /\ UNCHANGED notGetVars

\* the end of the throttle sleep: the lock is left
ThrottleWake(c) ==
    /\ calls[c].pc = "throttle_sleep"
    /\ calls' = [calls EXCEPT ![c].pc = "send"]
    /\ lock' = [lock EXCEPT !.locked = FALSE]
    /\ UNCHANGED <<client, api_sem, scrape_sem>>
    /\ UNCHANGED notGetVars

\* the return of _get: the slot is released
Return(c, ret) ==
    /\ calls' = [calls EXCEPT ![c] = [@ EXCEPT !.pc = "returned", !.ret = ret, !.attempt = 0]]
    /\ SetSem(calls[c].is_api, SemRelease(SemOf(calls[c].is_api)))

\* the outcome of one HTTP attempt
Send(c) ==
    /\ calls[c].pc = "send"
    /\ \E outcome \in {"response", "rate_limited", "error"} :
         CASE outcome = "response" -> Return(c, "response")
           [] outcome = "rate_limited" ->
                /\ calls' = [calls EXCEPT ![c].pc = "backoff"]
                /\ UNCHANGED <<api_sem, scrape_sem>>
           [] outcome = "error" ->
                IF calls[c].attempt = MaxAttempts - 1
                THEN Return(c, "gave_up")
                ELSE /\ calls' = [calls EXCEPT ![c].pc = "backoff"]
                     /\ UNCHANGED <<api_sem, scrape_sem>>
    /\ UNCHANGED <<client, lock>>
    /\ UNCHANGED notGetVars

\* the end of a sleep before the next attempt; after the last attempt the
\* loop is over and _get returns (0, "", {})
BackoffWake(c) ==
    /\ calls[c].pc = "backoff"
    /\ IF calls[c].attempt + 1 >= MaxAttempts
       THEN Return(c, "gave_up")
       ELSE /\ calls' = [calls EXCEPT ![c].pc = "send", ![c].attempt = @ + 1]
            /\ UNCHANGED <<api_sem, scrape_sem>>
    /\ UNCHANGED <<client, lock>>
    /\ UNCHANGED notGetVars

GetStep(c) ==
    \/ Call(c) \/ SemResume(c) \/ LockResume(c)
    \/ ThrottleWake(c) \/ Send(c) \/ BackoffWake(c)

\* a 429 whose Retry-After header is no integer literal: int() raises
\* ValueError, which is no aiohttp.ClientError or asyncio.TimeoutError; it
\* leaves _get through the exit of `async with sem`
SendRaises(c) ==
    /\ calls[c].pc = "send"
    /\ calls' = [calls EXCEPT ![c].pc = "raised"]
    /\ SetSem(calls[c].is_api, SemRelease(SemOf(calls[c].is_api)))
    /\ UNCHANGED <<client, lock>>
    /\ UNCHANGED notGetVars

\* ---- cancellation of a task inside _get
\* the queue without the cancelled waiter
Without(waiters, c) == SelectSeq(waiters, LAMBDA w : w # c)

\* the exit of `async with self._lock` as CancelledError passes through it
LockExitSkipped(l) == l
LockExit(l) == [l EXCEPT !.locked = FALSE]

\* task.cancel() while the task is suspended in _get: CancelledError is
\* raised at the await; it is no aiohttp.ClientError or asyncio.TimeoutError,
\* so it leaves through the exits of the `async with` blocks entered so far
Cancel(c) ==
    LET call == calls[c]
        sem == SemOf(call.is_api)
    IN /\ call.pc \in {"wait_sem"} \cup InSlot
       /\ calls' = [calls EXCEPT ![c].pc = "cancelled"]
       /\ CASE call.pc = "wait_sem" ->
                 \* acquire() is given up: the waiter leaves the line
                 /\ SetSem(call.is_api, [sem EXCEPT !.waiters = Without(@, c)])
                 /\ UNCHANGED lock
            [] call.pc = "wait_lock" ->
                 /\ lock' = [lock EXCEPT !.waiters = Without(@, c)]
                 /\ SetSem(call.is_api, SemRelease(sem))
            [] call.pc = "throttle_sleep" ->
                 /\ lock' = LockExit(lock)
                 /\ SetSem(call.is_api, SemRelease(sem))
            [] OTHER ->
                 /\ SetSem(call.is_api, SemRelease(sem))
                 /\ UNCHANGED lock
       /\ UNCHANGED client
       /\ UNCHANGED notGetVars

(***************************************************************************)
(* AsyncGitHubClient._get with its clock  (async_client.py)                *)
(*                                                                         *)
(* The same coroutine as above, with time.monotonic(), self._last_request, *)
(* the sleeps and the answers of the upstream.  Time is counted in whole   *)
(* seconds; the client is the one built without a token (_throttle = 1.0). *)
(* A sleeping task wakes at its wake time or later.                        *)
(***************************************************************************)
THROTTLE == 1                       \* self._throttle = 1.0
DEFAULT_RETRY_AFTER == 5            \* resp.headers.get("Retry-After", 5)
MaxTime == 6                        \* the clock stops here
MaxOverlapTime == 3                 \* ... and here when calls run concurrently
StartTime == THROTTLE               \* time.monotonic() at the first call

\* the Retry-After header of a 429: absent, delay seconds, or an HTTP date
NoHeader == "absent"
HttpDate == "Wed, 21 Oct 2015 07:28:00 GMT"
RetryAfterHeaders == {NoHeader, "0", "2", HttpDate}

\* int(x) of a header value: defined on decimal literals, ValueError otherwise
IsIntLiteral(h) == h \in {"0", "2"}
IntOf(h) == IF h = "0" THEN 0 ELSE 2

\* wait = int(resp.headers.get("Retry-After", 5))
RetryAfterRaises(h) == h # NoHeader /\ ~IsIntLiteral(h)
RetryAfterIgnored(h) == 0
RetryAfterWait(h) == IF h = NoHeader THEN DEFAULT_RETRY_AFTER ELSE IntOf(h)

\* 2 ** attempt
Backoff(attempt) == 2 ^ attempt

\* the values _get returns: (status, body, headers)
NoReturn == [status |-> -1, body |-> "", headers |-> ""]
GaveUp == [status |-> 0, body |-> "", headers |-> "{}"]
Answer(status) == [status |-> status, body |-> "text", headers |-> "dict(resp.headers)"]
Statuses == {200}                   \* a status other than 429

\* a call, with what it did and met so far:
\*   first            when its first request was sent
\*   sent_at          when the request in flight was sent
\*   t429, h429       the time and the Retry-After header of the 429 that
\*                    answered the attempt before this one
\*   met              the kinds of outcome its attempts had
\* (the times are kept while the call is under way)
Never == -1
IdleTimedCall ==
    [pc |-> "idle", is_api |-> FALSE, attempt |-> 0, wake |-> 0, ret |-> NoReturn,
     first |-> Never, sent_at |-> Never, t429 |-> Never, h429 |-> NoHeader, met |-> {}]

\* session.get(...): the request of this attempt is sent
Dispatch(c, call) ==
    /\ calls' = [calls EXCEPT ![c] =
                    [call EXCEPT !.pc = "inflight", !.wake = 0, !.sent_at = now,
                                 !.first = IF @ = Never THEN now ELSE @]]
    /\ closest' = IF last_sent = Never THEN closest ELSE Min({closest, now - last_sent})
    /\ last_sent' = now

\* inside the lock: elapsed = now - self._last_request; sleep for the rest of
\* the interval holding the lock, or leave the lock and send
TimedThrottle(c, call, waiters) ==
    LET elapsed == now - last_request
    IN IF elapsed < THROTTLE
       THEN /\ lock' = [locked |-> TRUE, waiters |-> waiters]
            /\ calls' = [calls EXCEPT ![c] =
                            [call EXCEPT !.pc = "throttle_sleep",
                                         !.wake = now + (THROTTLE - elapsed)]]
            /\ UNCHANGED sendVars
       ELSE /\ lock' = [locked |-> FALSE, waiters |-> waiters]
            /\ Dispatch(c, call)

\* async with self._lock, by a caller that has its slot
TimedLock(c, call) ==
    IF ~lock.locked /\ lock.waiters = <<>>
    THEN TimedThrottle(c, call, <<>>)
    ELSE /\ lock' = [lock EXCEPT !.waiters = Append(@, c)]
         /\ calls' = [calls EXCEPT ![c] = [call EXCEPT !.pc = "wait_lock"]]
         /\ UNCHANGED sendVars

\* _get up to its first suspension
TimedCall(c) ==
    /\ calls[c].pc = "idle"
    /\ \E is_api \in BOOLEAN :
         LET call == [IdleTimedCall EXCEPT !.is_api = is_api]
         IN IF ~SemLocked(SemOf(is_api))
            THEN /\ SetSem(is_api, SemTake(SemOf(is_api)))
                 /\ TimedLock(c, call)
            ELSE /\ SetSem(is_api, SemEnqueue(SemOf(is_api), c))
                 /\ calls' = [calls EXCEPT ![c] = [call EXCEPT !.pc = "wait_sem"]]
                 /\ UNCHANGED <<lock, sendVars>>
    /\ UNCHANGED <<client, now, last_request>>
    /\ UNCHANGED notTimedVars

\* the first waiter takes the slot a release made free
TimedSemResume(c) ==
    /\ calls[c].pc = "wait_sem"
    /\ SemOf(calls[c].is_api).waiters # <<>>
    /\ Head(SemOf(calls[c].is_api).waiters) = c
    /\ SemOf(calls[c].is_api).value > 0
    /\ SetSem(calls[c].is_api,
              [value |-> SemOf(calls[c].is_api).value - 1,
               waiters |-> Tail(SemOf(calls[c].is_api).waiters)])
    /\ TimedLock(c, calls[c])
    /\ UNCHANGED <<client, now, last_request>>
    /\ UNCHANGED notTimedVars

\* the first waiter takes the lock a release made free
TimedLockResume(c) ==
    /\ calls[c].pc = "wait_lock"
    /\ lock.waiters # <<>>
    /\ Head(lock.waiters) = c
    /\ ~lock.locked
    /\ TimedThrottle(c, calls[c], Tail(lock.waiters))
    /\ UNCHANGED <<client, api_sem, scrape_sem, now, last_request>>
    /\ UNCHANGED notTimedVars

\* the end of the throttle sleep: the lock is left and the request is sent
TimedThrottleWake(c) ==
    /\ calls[c].pc = "throttle_sleep"
    /\ now >= calls[c].wake
    /\ Dispatch(c, calls[c])
    /\ lock' = [lock EXCEPT !.locked = FALSE]
    /\ UNCHANGED <<client, api_sem, scrape_sem, now, last_request>>
    /\ UNCHANGED notTimedVars

\* _get is left, by return or by an exception: the slot is released
Leave(c, call, how, ret) ==
    /\ calls' = [calls EXCEPT ![c] =
                    [call EXCEPT !.pc = how, !.ret = ret, !.wake = 0, !.first = Never,
                                 !.sent_at = Never, !.t429 = Never, !.h429 = NoHeader]]
    /\ SetSem(call.is_api, SemRelease(SemOf(call.is_api)))

\* the attempt failed with aiohttp.ClientError or asyncio.TimeoutError
OnError(c, call) ==
    IF call.attempt = MaxAttempts - 1
    THEN Leave(c, call, "returned", GaveUp)
    ELSE /\ calls' = [calls EXCEPT ![c] =
                         [call EXCEPT !.pc = "backoff", !.wake = now + Backoff(call.attempt)]]
         /\ UNCHANGED <<api_sem, scrape_sem>>

Met(call, kind) ==
    [call EXCEPT !.met = @ \cup {kind}, !.sent_at = Never, !.t429 = Never, !.h429 = NoHeader]

\* the answer to the request in flight: a response (its status line and
\* headers), or an exception before any response
Response(c) ==
    /\ calls[c].pc = "inflight"
    /\ \/ \E status \in Statuses :
            \* the body is read and returned, or reading it fails
            /\ last_request' = now
            /\ \/ Leave(c, Met(calls[c], "status"), "returned", Answer(status))
               \/ OnError(c, Met(calls[c], "error"))
       \/ \E h \in RetryAfterHeaders :
            LET call == [Met(calls[c], "429") EXCEPT !.t429 = now, !.h429 = h]
            IN /\ last_request' = now
               /\ IF RetryAfterRaises(h)
                  THEN Leave(c, call, "raised", NoReturn)
                  ELSE /\ calls' = [calls EXCEPT ![c] =
                                       [call EXCEPT !.pc = "retry_after",
                                                    !.wake = now + RetryAfterWait(h)]]
                       /\ UNCHANGED <<api_sem, scrape_sem>>
       \/ /\ UNCHANGED last_request
          /\ OnError(c, Met(calls[c], "error"))
    /\ UNCHANGED <<client, lock, now, sendVars>>
    /\ UNCHANGED notTimedVars

\* the end of the sleep after a 429 or after a failed attempt: the next
\* attempt is sent, or the loop is over and _get returns (0, "", {})
RetryWake(c) ==
    /\ calls[c].pc \in {"retry_after", "backoff"}
    /\ now >= calls[c].wake
    /\ IF calls[c].attempt + 1 >= MaxAttempts
       THEN /\ Leave(c, calls[c], "returned", GaveUp)
            /\ UNCHANGED sendVars
       ELSE /\ Dispatch(c, [calls[c] EXCEPT !.attempt = @ + 1])
            /\ UNCHANGED <<api_sem, scrape_sem>>
    /\ UNCHANGED <<client, lock, now, last_request>>
    /\ UNCHANGED notTimedVars

\* time passes
Tick(limit) ==
    /\ now < limit
    /\ now' = now + 1
    /\ UNCHANGED <<getVars, last_request, sendVars>>
    /\ UNCHANGED notTimedVars

\* a call starts when no other call of the client is under way; the calls
\* are numbered in the order they are made
NoCallUnderWay == \A c \in Callers : calls[c].pc \in {"idle", "returned", "raised"}
SequentialCall(c) ==
    /\ NoCallUnderWay
    /\ \A d \in Callers : d < c => calls[d].pc # "idle"
    /\ TimedCall(c)

(***************************************************************************)
(* CacheStore  (cache.py)                                                  *)
(*                                                                         *)
(* One JSON file per (namespace, key) under base_dir.  The data stored are *)
(* the JSON documents the client caches (lists and dicts with string       *)
(* keys), which json.dumps / json.loads give back unchanged.               *)
(***************************************************************************)
MaxWall == 2                        \* time.time() stops here
MaxTtl == 1                         \* ttl, in the unit of the clock
Namespaces == {"issues", "pr_detail"}
CacheData == {"[]", "[51]"}         \* JSON documents
Ttls == 0..MaxTtl

\* the keys the client uses, for the repository "o/r"
IssuesKey == <<"o/r", ":", 100>>                    \* f"{repo}:{max_issues}"
NumberKey(n) == <<"o/r", "#", n>>                   \* f"{repo}#{number}"
LinkedKey(n) == <<"o/r", "#", n, ":prs">>           \* f"{repo}#{issue_number}:prs"
CacheUses ==
    { <<"issues", IssuesKey>> } \cup { <<"pr_detail", NumberKey(p)>> : p \in PullNumbers }

\* _key_hash: the first 16 hex digits of the key's sha256, one per key
key_hash(key) == <<"sha256", key>>

\* self._path(namespace, key)
CachePath(ns, key) == <<ns, key_hash(key)>>
CachePaths == { CachePath(u[1], u[2]) : u \in CacheUses }

\* the content of a file: none, text json.loads rejects, or an entry
NoCacheFile == [kind |-> "absent"]
Unparsable == [kind |-> "unparsable"]
Entry(key, expires_at, data) ==
    [kind |-> "entry", key |-> key, expires_at |-> expires_at, data |-> data]

\* what get returns: None, or the data of the entry
None == [hit |-> FALSE]
Some(data) == [hit |-> TRUE, data |-> data]
EveryNamespace == ""                \* invalidate(): namespace None
\* the latest set of a path: its data, and its time plus its ttl
NoSet == [data |-> "", until |-> 0]
NoGet == [path |-> <<>>, ret |-> None, expired |-> FALSE]

\* if time.time() > entry.get("expires_at", 0)
ExpiredFromExpiry(entry) == wall >= entry.expires_at
Expired(entry) == wall > entry.expires_at

\* CacheStore.get on the store (on, dir): what it returns, the directory after
get_ret(on, dir, ns, key) ==
    LET file == dir[CachePath(ns, key)]
    IN IF ~on \/ file = NoCacheFile \/ file = Unparsable THEN None
       ELSE IF Expired(file) THEN None
       ELSE Some(file.data)
after_get(on, dir, ns, key) ==
    LET path == CachePath(ns, key)
    IN IF on /\ dir[path] # NoCacheFile /\ (dir[path] = Unparsable \/ Expired(dir[path]))
       THEN [dir EXCEPT ![path] = NoCacheFile]
       ELSE dir

\* CacheStore.set: the directory after
after_set(on, dir, ns, key, data, ttl) ==
    IF on THEN [dir EXCEPT ![CachePath(ns, key)] = Entry(key, wall + ttl, data)]
    ELSE dir

\* a call of get
CacheGet(ns, key) ==
    LET path == CachePath(ns, key)
    IN /\ last_get' = [path |-> path, ret |-> get_ret(enabled, cache_dir, ns, key),
                       expired |-> /\ enabled
                                   /\ cache_dir[path] \notin {NoCacheFile, Unparsable}
                                   /\ Expired(cache_dir[path])]
       /\ cache_dir' = after_get(enabled, cache_dir, ns, key)
       /\ UNCHANGED <<enabled, wall, latest>>
       /\ UNCHANGED notCacheVars

\* a call of set
CacheSet(ns, key, data, ttl) ==
    /\ cache_dir' = after_set(enabled, cache_dir, ns, key, data, ttl)
    /\ latest' = IF enabled
                 THEN [latest EXCEPT ![CachePath(ns, key)] =
                          [data |-> data, until |-> wall + ttl]]
                 ELSE latest
    /\ last_get' = NoGet
    /\ UNCHANGED <<enabled, wall>>
    /\ UNCHANGED notCacheVars

\* CacheStore.invalidate(namespace); namespace None clears every namespace
CacheInvalidate(ns) ==
    LET cleared == { q \in CachePaths : ns = EveryNamespace \/ q[1] = ns }
    IN /\ cache_dir' = [q \in CachePaths |-> IF q \in cleared THEN NoCacheFile ELSE cache_dir[q]]
       /\ latest' = [q \in CachePaths |-> IF q \in cleared THEN NoSet ELSE latest[q]]
       /\ last_get' = NoGet
       /\ UNCHANGED <<enabled, wall>>
       /\ UNCHANGED notCacheVars

\* time passes
WallTick ==
    /\ wall < MaxWall
    /\ wall' = wall + 1
    /\ last_get' = NoGet
    /\ UNCHANGED <<enabled, cache_dir, latest>>
    /\ UNCHANGED notCacheVars

(***************************************************************************)
(* AsyncGitHubClient.scan_repo over the cache  (async_client.py)           *)
(*                                                                         *)
(* scan_repo lists the closed issues and runs one analyze_issue task per   *)
(* issue under asyncio.gather; the getters read and fill the CacheStore.   *)
(* A task runs from one await of a shared resource to the next: the        *)
(* getters whose cache key belongs to the task's own issue are one step,   *)
(* get_pr_detail, whose key two tasks may share, is a lookup and a fetch.  *)
(***************************************************************************)
MaxRuns == 3                        \* scan_repo calls in a row
ScanIssueNumbers == {IssueNumber, OtherIssue}
TTL_ISSUES == MaxTtl                \* 86400 s, the longest ttl of the model's clock

\* an issue as _parse_issue_list reads it off the list page
Listed(n) == [number |-> n, state |-> "closed", body |-> NoBody, title_len |-> 10]

\* an issue page as get_issue_detail reads it: the title and the body
Page(title_len, pieces) == [title_len |-> title_len, body |-> Body(pieces)]

\* the repository upstream: the list page, the issue pages, the pulls each
\* issue's timeline names, the pulls
Sites ==
    [issues : { <<>>, <<Listed(IssueNumber), Listed(OtherIssue)>> },
     details : { d \in [ScanIssueNumbers -> { Page(10, <<Text(60)>>),
                                              Page(10, <<Text(40), Url>>) }] :
                   d[IssueNumber].body = Body(<<Text(60)>>) },
     linked : { l \in [ScanIssueNumbers -> { {}, {51}, {52}, {51, 52} }] :
                   /\ l[IssueNumber] \in { {51}, {51, 52} }
                   /\ l[OtherIssue] \in { {}, {51}, {52} } },
     pulls : { db \in [PullNumbers ->
                        { [found |-> TRUE, state |-> "closed", merged |-> TRUE, body |-> b,
                           files |-> FourCodeFiles] :
                            b \in { <<Fix(IssueNumber)>>, <<Fix(OtherIssue)>>,
                                    <<Fix(IssueNumber), Fix(OtherIssue)>> } }] :
                   /\ db[51].body # <<Fix(OtherIssue)>>
                   /\ db[52].body = <<Fix(OtherIssue)>> }]
NoSite == [issues |-> <<>>, details |-> <<>>, linked |-> <<>>, pulls |-> <<>>]

\* what one issue's getters are answered
UpstreamOf(n) == [timeline_prs |-> github.linked[n], html_prs |-> {}, pulls |-> github.pulls]

ScanPaths ==
    {CachePath("issues", IssuesKey)}
    \cup { CachePath("issue_detail", NumberKey(n)) : n \in ScanIssueNumbers }
    \cup { CachePath("linked_prs", LinkedKey(n)) : n \in ScanIssueNumbers }
    \cup { CachePath("pr_detail", NumberKey(p)) : p \in PullNumbers }

\* what goes wrong in one task: nothing; the client gives up on the issue
\* page, on the timeline and the page, on the pull, on the pull's files;
\* a request raises
TaskIds == 1..Cardinality(ScanIssueNumbers)
FaultKinds == {"ok", "detail", "linked", "pr", "files", "raise"}

\* _issue_dict and IssueInfo(**i)
issue_dict(i) ==
    [number |-> i.number, title_len |-> i.title_len, body |-> i.body, state |-> i.state]
IssueInfoOf(d) ==
    [number |-> d.number, state |-> d.state, body |-> d.body, title_len |-> d.title_len]

\* pr_cache and PRAnalysis(**cached), files through PRFileChange(**f)
pr_cache_unmerged(pr) ==
    [number |-> pr.number, state |-> pr.state, merged |-> FALSE, body |-> pr.body,
     files |-> pr.files, closes_issues |-> pr.closes_issues]
pr_cache(pr) ==
    [number |-> pr.number, state |-> pr.state, merged |-> pr.merged, body |-> pr.body,
     files |-> [i \in DOMAIN pr.files |->
                  [filename |-> pr.files[i].filename, additions |-> pr.files[i].additions,
                   deletions |-> pr.files[i].deletions]],
     closes_issues |-> pr.closes_issues]
PRAnalysisOf(d) ==
    [found |-> TRUE, number |-> d.number, state |-> d.state, merged |-> d.merged,
     body |-> d.body,
     files |-> [i \in DOMAIN d.files |->
                  Change(d.files[i].filename, d.files[i].additions, d.files[i].deletions)],
     closes_issues |-> d.closes_issues]

\* an analyze_issue task
Raised == [NoResult EXCEPT !.complexity_hint = "Exception"]
Task(iss, fault) ==
    [pc |-> "gates", fault |-> fault, issue |-> iss, pr_nums |-> <<>>, idx |-> 1,
     best_pr |-> NoPr, reasons |-> <<>>, score |-> 0, result |-> NoResult]
NoScan == [pc |-> "none", prof |-> PR_WRITER_PROFILE, cache |-> "", tasks |-> <<>>, sent |-> 0]

\* a new process builds its client and calls scan_repo: list_closed_issues,
\* then one task per issue
ScanRepo(on, faults) ==
    /\ scan.pc = "idle"
    /\ Len(outs) < MaxRuns
    /\ enabled' = on
    /\ LET cached == get_ret(on, cache_dir, "issues", IssuesKey)
           dir == after_get(on, cache_dir, "issues", IssuesKey)
           hit == cached # None /\ cached.data # <<>>
           issues == IF hit THEN [i \in DOMAIN cached.data |-> IssueInfoOf(cached.data[i])]
                     ELSE github.issues
           pages == IF hit THEN 0 ELSE IF issues = <<>> THEN 1 ELSE 2
       IN /\ cache_dir' = IF ~hit /\ issues # <<>>
                          THEN after_set(on, dir, "issues", IssuesKey,
                                         [i \in DOMAIN issues |-> issue_dict(issues[i])],
                                         TTL_ISSUES)
                          ELSE dir
          /\ scan' = [scan EXCEPT
                        !.pc = "gather",
                        !.cache = IF ~on THEN "disabled"
                                  ELSE IF \A q \in ScanPaths : cache_dir[q] = NoCacheFile
                                  THEN "empty" ELSE "filled",
                        !.tasks = [k \in DOMAIN issues |-> Task(issues[k], faults[k])],
                        !.sent = pages]
    /\ UNCHANGED <<github, outs, wall>>
    /\ UNCHANGED notScanVars

\* analyze_issue up to Gate 3: get_issue_detail when the body is missing,
\* the body test, get_linked_prs
TaskGates(k) ==
    LET t == scan.tasks[k]
        n == t.issue.number
        \* get_issue_detail
        want == t.issue.body = NoBody
        cached == get_ret(enabled, cache_dir, "issue_detail", NumberKey(n))
        d1 == IF want THEN after_get(enabled, cache_dir, "issue_detail", NumberKey(n))
              ELSE cache_dir
        asked == want /\ cached = None
        info == [Listed(n) EXCEPT !.title_len = github.details[n].title_len,
                                  !.body = github.details[n].body]
        d2 == IF asked /\ t.fault # "detail"
              THEN after_set(enabled, d1, "issue_detail", NumberKey(n), issue_dict(info),
                             TTL_ISSUES)
              ELSE d1
        fetched == IF ~want THEN t.issue
                   ELSE IF cached # None THEN IssueInfoOf(cached.data)
                   ELSE IF t.fault = "detail" THEN t.issue
                   ELSE info
        \* Gate 2
        impure == scan.prof.require_pure_body /\ body_has_links_or_images(fetched.body)
        r == IF impure THEN <<"Issue body contains links or images">>
             ELSE <<"Body is pure text">>
        sc == IF impure THEN 0 ELSE scan.prof.pure_body_score
        \* get_linked_prs
        known == get_ret(enabled, d2, "linked_prs", LinkedKey(n))
        d3 == after_get(enabled, d2, "linked_prs", LinkedKey(n))
        found == known # None /\ known.data # <<>>
        nums == IF found THEN known.data
                ELSE IF t.fault = "linked" THEN <<>>
                ELSE get_linked_prs(UpstreamOf(n))
        d4 == IF ~found /\ nums # <<>>
              THEN after_set(enabled, d3, "linked_prs", LinkedKey(n), nums, TTL_ISSUES)
              ELSE d3
        requests_sent == (IF asked THEN 1 ELSE 0)
                         + (IF found THEN 0 ELSE IF nums = <<>> THEN 2 ELSE 1)
    IN /\ scan.pc = "gather" /\ k \in DOMAIN scan.tasks
       /\ t.pc = "gates"
       /\ IF t.issue.state # "closed"
          THEN /\ scan' = [scan EXCEPT !.tasks[k] =
                             [t EXCEPT !.pc = "done",
                                       !.result = [NoResult EXCEPT
                                                     !.issue = t.issue,
                                                     !.reasons = <<"Issue is not closed">>]]]
               /\ UNCHANGED cache_dir
          ELSE IF t.fault = "raise"
          THEN /\ scan' = [scan EXCEPT !.tasks[k] = [t EXCEPT !.pc = "done", !.result = Raised],
                                       !.sent = @ + 1]
               /\ UNCHANGED cache_dir
          ELSE /\ cache_dir' = d4
               /\ scan' = [scan EXCEPT
                             !.sent = @ + requests_sent,
                             !.tasks[k] =
                                IF nums = <<>>
                                THEN [t EXCEPT
                                        !.pc = "done", !.issue = fetched, !.score = sc,
                                        !.reasons = Append(r, "No PR found that references this issue"),
                                        !.result = [NoResult EXCEPT
                                                      !.issue = fetched, !.score = sc,
                                                      !.reasons = Append(r, "No PR found that references this issue")]]
                                ELSE [t EXCEPT !.pc = "loop", !.issue = fetched, !.score = sc,
                                               !.reasons = r, !.pr_nums = nums]]
       /\ UNCHANGED <<github, outs, enabled, wall>>
       /\ UNCHANGED notScanVars

\* Gate 4: the rest of one turn of the loop, once get_pr_detail has returned
Turn(t, pr) ==
    IF ~pr.found \/ NotClosingThisIssue(pr, t.issue.number)
    THEN [t EXCEPT !.pc = "loop", !.idx = @ + 1]
    ELSE IF scan.prof.require_one_way_close /\ ClosesMultiple(pr.closes_issues)
    THEN [t EXCEPT !.pc = "loop", !.idx = @ + 1,
                   !.reasons = Append(@, "PR closes multiple issues")]
    ELSE [t EXCEPT !.pc = "loop", !.idx = @ + 1, !.best_pr = pr]

\* get_pr_detail: the cache is read; a hit returns, a miss sends the request
TaskLookup(k) ==
    LET t == scan.tasks[k]
        key == NumberKey(t.pr_nums[t.idx])
        cached == get_ret(enabled, cache_dir, "pr_detail", key)
    IN /\ scan.pc = "gather" /\ k \in DOMAIN scan.tasks
       /\ t.pc = "loop"
       /\ t.idx <= Len(t.pr_nums)
       /\ ~t.best_pr.found
       /\ cache_dir' = after_get(enabled, cache_dir, "pr_detail", key)
       /\ scan' = [scan EXCEPT !.tasks[k] = IF cached # None THEN Turn(t, PRAnalysisOf(cached.data))
                                            ELSE [t EXCEPT !.pc = "fetch"]]
       /\ UNCHANGED <<github, outs, enabled, wall>>
       /\ UNCHANGED notScanVars

\* get_pr_detail: the pull and its files have been answered (or given up on)
TaskFetched(k) ==
    LET t == scan.tasks[k]
        n == t.pr_nums[t.idx]
        data == get_pr_detail(UpstreamOf(t.issue.number), n)
        pr == IF t.fault = "pr" THEN NoPr
              ELSE IF t.fault = "files" THEN [data EXCEPT !.files = <<>>]
              ELSE data
    IN /\ scan.pc = "gather" /\ k \in DOMAIN scan.tasks
       /\ t.pc = "fetch"
       /\ cache_dir' = IF pr.found
                       THEN after_set(enabled, cache_dir, "pr_detail", NumberKey(n),
                                      pr_cache(pr), TTL_ISSUES)
                       ELSE cache_dir
       /\ scan' = [scan EXCEPT !.tasks[k] = Turn(t, pr),
                               !.sent = @ + (IF pr.found THEN 2 ELSE 1)]
       /\ UNCHANGED <<github, outs, enabled, wall>>
       /\ UNCHANGED notScanVars

\* analyze_issue after the loop
TaskFinish(k) ==
    LET t == scan.tasks[k]
    IN /\ scan.pc = "gather" /\ k \in DOMAIN scan.tasks
       /\ t.pc = "loop"
       /\ t.idx > Len(t.pr_nums) \/ t.best_pr.found
       /\ scan' = [scan EXCEPT !.tasks[k] =
                     [t EXCEPT !.pc = "done",
                               !.result = IF ~t.best_pr.found
                                          THEN NoneChosen(t.issue, t.reasons, t.score)
                                          ELSE Scored(t.issue, t.best_pr, scan.prof,
                                                      t.reasons, t.score)]]
       /\ UNCHANGED <<github, outs, cache_dir, enabled, wall>>
       /\ UNCHANGED notScanVars

\* passing.sort(key=lambda x: x.score, reverse=True): stable
RECURSIVE by_score(_)
by_score(rs) ==
    IF rs = <<>> THEN <<>>
    ELSE LET top == Max({ rs[i].score : i \in DOMAIN rs })
             first == Min({ i \in DOMAIN rs : rs[i].score = top })
         IN <<rs[first]>> \o by_score(SubSeq(rs, 1, first - 1) \o SubSeq(rs, first + 1, Len(rs)))

\* the results gather returns that are no exception, pass and reach min_score
Passing(tasks) ==
    SelectSeq([k \in DOMAIN tasks |-> tasks[k].result],
              LAMBDA r : r # Raised /\ r.passes /\ r.score >= scan.prof.min_score)

\* asyncio.gather has every result: scan_repo filters, sorts and returns
Gather ==
    /\ scan.pc = "gather"
    /\ \A k \in DOMAIN scan.tasks : scan.tasks[k].pc = "done"
    /\ outs' = Append(outs, [cache |-> scan.cache, results |-> by_score(Passing(scan.tasks)),
                             sent |-> scan.sent,
                             faults |-> [k \in DOMAIN scan.tasks |-> scan.tasks[k].fault]])
    /\ scan' = [scan EXCEPT !.pc = "idle", !.tasks = <<>>, !.sent = 0]
    /\ UNCHANGED <<github, cache_dir, enabled, wall>>
    /\ UNCHANGED notScanVars

\* time passes between two scans
ScanTick ==
    /\ scan.pc = "idle"
    /\ outs # <<>>
    /\ wall < MaxWall
    /\ wall' = wall + 1
    /\ UNCHANGED <<github, scan, outs, cache_dir, enabled>>
    /\ UNCHANGED notScanVars

(***************************************************************************)
(* GitHubClient._request and the fan-out of IssueAnalyzer                  *)
(* (github_api.py, analyzer.py)                                            *)
(*                                                                         *)
(* search_and_analyze and analyze_specific_repo call analyze_issue for one *)
(* issue after another.  analyze_issue is taken here by its requests (the  *)
(* timeline, the pull request, the pull request's files) and by whether    *)
(* the issue meets the criteria when all three are answered.               *)
(***************************************************************************)
RETRIES == 3

\* what one attempt meets: a 2xx answer, a 404, a 403 naming the rate limit,
\* a RequestException (raise_for_status included)
AllOf(o) == [a \in 1..(RETRIES + 1) |-> o]
Flaky == [a \in 1..(RETRIES + 1) |-> IF a = 1 THEN "error" ELSE "ok"]
RequestCourses == { AllOf("ok"), AllOf("missing"), Flaky, AllOf("error"), AllOf("limited") }

Returns(status) == [raised |-> "", status |-> status]
Raises(exception) == [raised |-> exception, status |-> 0]

\* _request: for attempt in range(retries + 1)
RECURSIVE request(_, _)
request(course, attempt) ==
    LET met == course[attempt + 1]
    IN IF met = "limited"
       THEN IF attempt < RETRIES THEN request(course, attempt + 1)
            ELSE Raises("RateLimitExceeded")
       ELSE IF met = "missing" THEN Returns(404)
       ELSE IF met = "ok" THEN Returns(200)
       ELSE IF attempt < RETRIES THEN request(course, attempt + 1)
       ELSE Raises("GitHubAPIError")

\* the requests of analyze_issue, in the order it sends them
Stages == <<"timeline", "pull", "files">>

\* an issue of the fan-out: what its requests meet, and whether it meets the
\* criteria once they are answered; at most one of its requests goes wrong
WorkItems ==
    { w \in [repo : {"o/r", "p/q"}, number : {IssueNumber, OtherIssue},
             courses : [1..Len(Stages) -> RequestCourses], merits : BOOLEAN] :
        Cardinality({ st \in 1..Len(Stages) : w.courses[st] # AllOf("ok") }) <= 1 }
Worklists ==
    { <<a, b>> : a \in { w \in WorkItems : w.repo = "o/r" /\ w.number = IssueNumber },
                 b \in { w \in WorkItems : <<w.repo, w.number>> \in
                                             { <<"o/r", OtherIssue>>, <<"p/q", IssueNumber>> } } }

NoSweep == [pc |-> "none", op |-> "", items |-> <<>>, i |-> 0, stage |-> 0,
            rejection |-> "", results |-> <<>>, ret |-> <<>>]

\* the IssueAnalysis of an item
IssueAnalysisOf(w, reason) ==
    [repo |-> w.repo, issue_number |-> w.number,
     meets_criteria |-> reason = "" /\ w.merits,
     rejection_reasons |-> IF reason # "" THEN <<reason>>
                           ELSE IF w.merits THEN <<>> ELSE <<"criteria not met">>]

\* the next request of the issue under analysis
SweepRequest ==
    LET w == sweep.items[sweep.i]
        answer == request(w.courses[sweep.stage], 0)
    IN /\ sweep.pc = "issue"
       /\ sweep.stage <= Len(Stages)
       /\ sweep.rejection = ""
       /\ sweep' =
            IF answer.raised # ""
            \* no handler between _request and the caller of the fan-out
            THEN [sweep EXCEPT !.pc = "raised", !.rejection = answer.raised]
            ELSE IF answer.status = 404
            THEN [sweep EXCEPT !.rejection =
                     CASE Stages[sweep.stage] = "timeline" -> "No linked merged PR found"
                       [] Stages[sweep.stage] = "pull" -> "PR not found"
                       [] OTHER -> "Too few Python code files"]
            ELSE [sweep EXCEPT !.stage = @ + 1]
       /\ UNCHANGED notSweepVars

\* analyze_issue has returned: the loop body after the call
SweepRecord ==
    LET w == sweep.items[sweep.i]
        returned == IssueAnalysisOf(w, sweep.rejection)
        kept == sweep.op = "analyze_specific_repo" \/ returned.meets_criteria
    IN /\ sweep.pc = "issue"
       /\ sweep.stage > Len(Stages) \/ sweep.rejection # ""
       /\ sweep' = [sweep EXCEPT
                      !.results = IF kept THEN Append(@, returned) ELSE @,
                      !.i = @ + 1, !.stage = 1, !.rejection = "",
                      !.pc = IF sweep.i = Len(sweep.items) THEN "sort" ELSE "issue"]
       /\ UNCHANGED notSweepVars

\* results.sort(...); return results
SweepReturn ==
    /\ sweep.pc = "sort"
    /\ sweep' = [sweep EXCEPT !.pc = "returned", !.ret = sweep.results]
    /\ UNCHANGED notSweepVars

(***************************************************************************)
(* AsyncGitHubClient.scan_repos_parallel  (async_client.py)                *)
(*                                                                         *)
(* One _scan_one task per repository, each awaiting scan_repo, which runs  *)
(* one analyze_issue task per listed issue.  Tasks finish in any order;    *)
(* what analyze_issue returns for an issue is fixed by the upstream.       *)
(***************************************************************************)
RepoInfoOf(name, stars, size_kb, language, default_branch) ==
    [full_name |-> name, stars |-> stars, size_kb |-> size_kb, language |-> language,
     default_branch |-> default_branch]
Complete(name) == RepoInfoOf(name, 500, 1000, "Python", "main")
Bare(name) == RepoInfoOf(name, 500, 0, "Python", "")

\* what get_repo_info gives: a RepoInfo, None, or an exception
Info(repo) == [found |-> TRUE, raised |-> FALSE, repo |-> repo]
NoInfo(name) == [found |-> FALSE, raised |-> FALSE, repo |-> Bare(name)]
InfoRaises(name) == [found |-> FALSE, raised |-> TRUE, repo |-> Bare(name)]

\* what analyze_issue gives for one issue: a result, or an exception
Analysed(score0, passes0) == [score |-> score0, passes |-> passes0, raised |-> FALSE]
AnalysisRaises == [score |-> 0, passes |-> FALSE, raised |-> TRUE]
ParOutcomes == { Analysed(12, TRUE), Analysed(10, TRUE), Analysed(12, FALSE), AnalysisRaises }
ParAnalyses ==
    {<<>>} \cup { <<a>> : a \in ParOutcomes } \cup { <<a, b>> : a \in ParOutcomes, b \in ParOutcomes }

\* a repository handed to scan_repos_parallel, with its upstream
ParRepoCases(name) ==
    { [listed |-> l, info |-> i, analyses |-> as] :
        l \in {Complete(name)}, i \in {NoInfo(name)}, as \in ParAnalyses }
    \cup { [listed |-> l, info |-> i, analyses |-> as] :
        l \in {Bare(name)},
        i \in {Info(Complete(name)), Info(RepoInfoOf(name, 100, 1000, "Python", "main")),
               Info(RepoInfoOf(name, 500, 1000, "Go", "main")),
               Info(RepoInfoOf(name, 500, MAX_REPO_SIZE_MB * KbPerMb + 1, "Python", "main")),
               NoInfo(name), InfoRaises(name)},
        as \in ParAnalyses }
Batches == { <<a, b>> : a \in ParRepoCases("a/x"), b \in ParRepoCases("b/y") }

\* enrich_repo
enrich_repo(repo) ==
    IF repo.listed.size_kb # 0 /\ repo.listed.default_branch # "" THEN repo.listed
    ELSE IF repo.info.found THEN repo.info.repo ELSE repo.listed

\* the repository gates of _scan_one: TRUE when one of them returns []
ParGated(enriched) ==
    \/ enriched.size_kb > MAX_REPO_SIZE_MB * KbPerMb
    \/ enriched.stars < MIN_STARS
    \/ enriched.language # "Python"

\* the results of tasks that finished in the order given, as the awaiting
\* coroutine gets them
as_completed(results, finished) == [i \in 1..Len(finished) |-> results[finished[i]]]
\* asyncio.gather: the results in the order of the awaitables
gather(results, finished) == [i \in 1..Len(results) |-> results[i]]

\* the results of scan_repo for a repository whose issue tasks finished in
\* the order given
ParResult(name, n, a) ==
    [repo |-> name, number |-> n, score |-> a.score, passes |-> a.passes, raised |-> a.raised]
ParPassing(results) ==
    SelectSeq(results, LAMBDA r : ~r.raised /\ r.passes /\ r.score >= PR_WRITER_PROFILE.min_score)
scan_repo(repo, finished) ==
    by_score(ParPassing(gather([i \in DOMAIN repo.analyses |->
                                   ParResult(repo.listed.full_name, i, repo.analyses[i])],
                               finished)))

\* all_results.extend(r) for every r of batch_results
RECURSIVE Extend(_)
Extend(batch_results) ==
    IF batch_results = <<>> THEN <<>>
    ELSE Head(batch_results) \o Extend(Tail(batch_results))

ParTask == [pc |-> "enrich", finished |-> <<>>, ret |-> <<>>]
NoPar == [pc |-> "none", repos |-> <<>>, tasks |-> <<>>, finished |-> <<>>, ret |-> <<>>]
ParRepoIds == {1, 2}
ParIssueIds == {1, 2}

\* _scan_one up to the call of scan_repo
ParEnrich(k) ==
    /\ par.pc = "running"
    /\ k \in DOMAIN par.tasks
    /\ par.tasks[k].pc = "enrich"
    /\ LET repo == par.repos[k]
           asked == ~(repo.listed.size_kb # 0 /\ repo.listed.default_branch # "")
       IN IF (asked /\ repo.info.raised) \/ ParGated(enrich_repo(repo))
          THEN par' = [par EXCEPT !.tasks[k].pc = "done", !.finished = Append(@, k)]
          ELSE par' = [par EXCEPT !.tasks[k].pc = "scan"]
    /\ UNCHANGED notParVars

\* one analyze_issue task of scan_repo finishes
ParAnalyze(k, i) ==
    /\ par.pc = "running"
    /\ k \in DOMAIN par.tasks
    /\ par.tasks[k].pc = "scan"
    /\ i \in DOMAIN par.repos[k].analyses
    /\ \A j \in DOMAIN par.tasks[k].finished : par.tasks[k].finished[j] # i
    /\ par' = [par EXCEPT !.tasks[k].finished = Append(@, i)]
    /\ UNCHANGED notParVars

\* scan_repo has every result: it filters, sorts and returns; _scan_one
\* returns the list
ParScanned(k) ==
    /\ par.pc = "running"
    /\ k \in DOMAIN par.tasks
    /\ par.tasks[k].pc = "scan"
    /\ Len(par.tasks[k].finished) = Len(par.repos[k].analyses)
    /\ par' = [par EXCEPT !.tasks[k].pc = "done",
                          !.tasks[k].ret = scan_repo(par.repos[k], par.tasks[k].finished),
                          !.finished = Append(@, k)]
    /\ UNCHANGED notParVars

\* every _scan_one is done: extend, sort, return
ParReturn ==
    /\ par.pc = "running"
    /\ \A k \in DOMAIN par.tasks : par.tasks[k].pc = "done"
    /\ par' = [par EXCEPT !.pc = "returned",
                          !.ret = by_score(Extend(gather([k \in DOMAIN par.tasks |->
                                                            par.tasks[k].ret],
                                                         par.finished)))]
    /\ UNCHANGED notParVars

(***************************************************************************)
(* score_candidate (scoring.py) and IssueAnalyzer._compute_complexity      *)
(* (analyzer.py) as functions of the number of code files changed, their   *)
(* total churn, the largest single-file churn and the issue body length    *)
(***************************************************************************)
\* the values each input takes: around every threshold and cap of the two
\* scorers
FileCounts == {5, 6, 7, 12, 13}
Churns == {20, 21, 100, 101, 200, 201, 1200, 1201}
Largests == {20, 21, 100, 101, 500, 501}
BodyLengths == {0, 100, 101, 500, 501, 4000, 4001}
\* (stars, its square root) and size_mb
StarRoots == { <<400, 20>>, <<50000 + 1, 223>> }
SizesMb == {130}

\* score_candidate in 600ths of a point: min(n, 12) * 10.0,
\* min(t, 1200) / 10.0, min(m, 500) / 5.0, min(max(len, 0), 4000) / 200.0,
\* sqrt(min(stars, 50000)) / 3.0, less (size_mb - 120) * 1.5 above 120 MB.
\* The square root is exact for the stars taken but the capped one, whose
\* root is taken as 223.6.
score_candidate(stars_root, size_mb, issue_body_len, n, t, m) ==
    LET file_score == MinOf(n, 12) * 6000
        churn_score == MinOf(t, 1200) * 60
        concentration_score == MinOf(m, 500) * 120
        issue_score == MinOf(IF issue_body_len > 0 THEN issue_body_len ELSE 0, 4000) * 3
        stars_score == IF stars_root[1] > 50000 THEN 2236 * 20 ELSE stars_root[2] * 200
        size_penalty == IF size_mb > 120 THEN (size_mb - 120) * 900 ELSE 0
    IN file_score + churn_score + concentration_score + issue_score + stars_score
       - size_penalty

\* the IssueAnalysis _compute_complexity reads: n code files counted, one
\* code file carrying the churn t, the largest change m, a body of len
\* characters
AnalysisWith(n, t, m, len) ==
    [EmptyAnalysis EXCEPT !.total_python_code_files = n,
                          !.file_changes = analyze_file_changes(<<Change(SrcCore, t, 0)>>),
                          !.max_file_changes = m,
                          !.issue_body = IF len = 0 THEN <<>> ELSE <<Text(len)>>]

NoScoring ==
    [pc |-> "none", n |-> 0, t |-> 0, m |-> 0, len |-> 0, stars |-> <<0, 0>>, size_mb |-> 0,
     raised |-> "", candidate |-> 0, complexity |-> 0, was_candidate |-> 0,
     was_complexity |-> 0]

\* both scorers are applied to the inputs held
Rescored(sc) ==
    [sc EXCEPT !.candidate = score_candidate(sc.stars, sc.size_mb, sc.len, sc.n, sc.t, sc.m),
               !.complexity = compute_complexity(AnalysisWith(sc.n, sc.t, sc.m, sc.len)).complexity_score,
               !.was_candidate = scoring.candidate,
               !.was_complexity = scoring.complexity]

\* one input is raised, the others stay, and both scorers are applied again
MoreFiles ==
    /\ scoring.pc = "scored"
    /\ \E n \in FileCounts :
         /\ n > scoring.n
         /\ scoring' = Rescored([scoring EXCEPT !.n = n, !.raised = "files"])
    /\ UNCHANGED notScoringVars
MoreChurn ==
    /\ scoring.pc = "scored"
    /\ \E t \in Churns :
         /\ t > scoring.t
         /\ scoring' = Rescored([scoring EXCEPT !.t = t, !.raised = "churn"])
    /\ UNCHANGED notScoringVars
LargerFile ==
    /\ scoring.pc = "scored"
    /\ \E m \in Largests :
         /\ m > scoring.m
         /\ scoring' = Rescored([scoring EXCEPT !.m = m, !.raised = "largest"])
    /\ UNCHANGED notScoringVars
LongerBody ==
    /\ scoring.pc = "scored"
    /\ \E len \in BodyLengths :
         /\ len > scoring.len
         /\ scoring' = Rescored([scoring EXCEPT !.len = len, !.raised = "body"])
    /\ UNCHANGED notScoringVars

(***************************************************************************)
(* GitHubScraper.analyze_issue_fast  (scraper.py)                          *)
(*                                                                         *)
(* get_linked_prs and get_pr_detail of the scraper read the upstream as    *)
(* those of the async client do: the timeline's pulls, or the page's when  *)
(* the timeline names none, sorted; closes_issues from the closing         *)
(* keywords of the pull's body.                                            *)
(***************************************************************************)
NoFast == [pc |-> "none", site |-> <<>>, pr_numbers |-> <<>>, i |-> 0, ret |-> NoPr,
           by |-> ""]

\* pr_numbers = self.get_linked_prs(repo, issue_number); if not pr_numbers:
\* return None
FastLinked ==
    /\ fast.pc = "linked"
    /\ LET nums == get_linked_prs(fast.site[1])
       IN fast' = IF nums = <<>> THEN [fast EXCEPT !.pc = "done", !.by = "none linked"]
                  ELSE [fast EXCEPT !.pc = "first", !.pr_numbers = nums, !.i = 1]
    /\ UNCHANGED notFastVars

\* one turn of the first loop: a pull that closes this issue and, by the
\* length of closes_issues, nothing else
FastFirstLoop ==
    /\ fast.pc = "first"
    /\ IF fast.i > Len(fast.pr_numbers)
       THEN fast' = [fast EXCEPT !.pc = "second", !.i = 1]
       ELSE LET pr == get_pr_detail(fast.site[1], fast.pr_numbers[fast.i])
            IN IF pr.found /\ IssueNumber \in Range(pr.closes_issues)
                  /\ Len(pr.closes_issues) = 1
               THEN fast' = [fast EXCEPT !.pc = "done", !.ret = pr, !.by = "one-way"]
               ELSE fast' = [fast EXCEPT !.i = @ + 1]
    /\ UNCHANGED notFastVars

\* one turn of the second loop: any pull that closes this issue
FastSecondLoop ==
    /\ fast.pc = "second"
    /\ fast.i <= Len(fast.pr_numbers)
    /\ LET pr == get_pr_detail(fast.site[1], fast.pr_numbers[fast.i])
       IN IF pr.found /\ IssueNumber \in Range(pr.closes_issues)
          THEN fast' = [fast EXCEPT !.pc = "done", !.ret = pr, !.by = "closing"]
          ELSE fast' = [fast EXCEPT !.i = @ + 1]
    /\ UNCHANGED notFastVars

\* if pr_numbers: return self.get_pr_detail(repo, pr_numbers[0])
FastFirstLinked ==
    /\ fast.pc = "second"
    /\ fast.i > Len(fast.pr_numbers)
    /\ fast' = [fast EXCEPT !.pc = "done",
                            !.ret = get_pr_detail(fast.site[1], fast.pr_numbers[1]),
                            !.by = "first linked"]
    /\ UNCHANGED notFastVars

(***************************************************************************)
(* GitHubClient.get_paginated  (github_api.py)                             *)
(*                                                                         *)
(* The endpoint holds a number of items, served per_page at a time: as a   *)
(* plain JSON list, or as a search response {items, incomplete_results}.   *)
(***************************************************************************)
PerPage == 2                        \* params["per_page"]
MaxPages == 3                       \* the largest max_pages tried

\* the endpoints: missing (404 on every page), a plain list, a search
\* response with incomplete_results false, true, or without the key
EndpointKinds == {"missing", "list", "search"}
IncompleteFlags == {"false", "true", "absent"}
Endpoints ==
    { [kind |-> k, total |-> n, incomplete_results |-> f] :
        k \in EndpointKinds, n \in 0..(MaxPages * PerPage + 1), f \in IncompleteFlags }

\* the items of page p
PageItems(e, p) ==
    LET from == (p - 1) * PerPage + 1
        to == IF p * PerPage < e.total THEN p * PerPage ELSE e.total
    IN [i \in 1..(IF to >= from THEN to - from + 1 ELSE 0) |-> from + i - 1]

\* self._request("GET", endpoint, params) for page p: the status and
\* response.json()
PageResponse(e, p) ==
    IF e.kind = "missing"
    THEN [status_code |-> 404, is_dict |-> FALSE, items |-> <<>>, incomplete_results |-> "absent"]
    ELSE [status_code |-> 200, is_dict |-> (e.kind = "search"), items |-> PageItems(e, p),
          incomplete_results |-> e.incomplete_results]

\* the loop goes on after this page: no 404, `items` truthy, and for a
\* search response `incomplete_results` (True when absent) and a full page,
\* for a list a full page
GoesOn(items) ==
    /\ items.status_code # 404
    /\ (items.is_dict \/ items.items # <<>>)
    /\ IF items.is_dict
       THEN items.incomplete_results # "false" /\ Len(items.items) = PerPage
       ELSE Len(items.items) = PerPage

NoPaging == [pc |-> "none", endpoint |-> [kind |-> "missing", total |-> 0,
                                          incomplete_results |-> "absent"],
             max_pages |-> 0, page |-> 0, all_items |-> <<>>]

\* one turn of the loop: the page is requested, its items are added, the
\* loop breaks or goes on
GetPage ==
    /\ paging.pc = "loop"
    /\ paging.page < paging.max_pages
    /\ LET p == paging.page + 1
           items == PageResponse(paging.endpoint, p)
           added == IF items.status_code = 404 THEN paging.all_items
                    ELSE paging.all_items \o items.items
       IN paging' = [paging EXCEPT !.page = p, !.all_items = added,
                                   !.pc = IF GoesOn(items) THEN "loop" ELSE "break"]
    /\ UNCHANGED notPagingVars

\* return all_items, after a break or after max_pages pages
PagedReturn ==
    /\ \/ paging.pc = "break"
       \/ paging.pc = "loop" /\ paging.page >= paging.max_pages
    /\ paging' = [paging EXCEPT !.pc = "returned"]
    /\ UNCHANGED notPagingVars


(***************************************************************************)
(* Initial states and specifications. Each specification runs one of the   *)
(* modelled operations; the variables of the others stay idle.             *)
(***************************************************************************)

IdleLinked ==
    /\ pulls = [p \in PullNumbers |-> [merged |-> FALSE, body |-> <<>>]]
    /\ timeline = <<>>
    /\ InitLinkedLocals
    /\ pc = "idle"

IdleAnalyzer ==
    /\ analyzer = [min_stars |-> MIN_STARS, max_size_mb |-> MAX_REPO_SIZE_MB,
                   min_python_files |-> 0, min_substantial |-> MIN_SUBSTANTIAL_CHANGES]
    /\ early_reject = TRUE
    /\ repo_info = NoRepo
    /\ issue_data = NoIssue
    /\ pr_files = <<>>
    /\ analysis = EmptyAnalysis

AsyncLocals ==
    /\ pr_nums = <<>>
    /\ idx = 1
    /\ best_pr = NoPr
    /\ reasons = <<>>
    /\ score = 0
    /\ result = NoResult

IdleAsync ==
    /\ issue = [number |-> IssueNumber, state |-> "closed", body |-> NoBody, title_len |-> 0]
    /\ profile = PR_WRITER_PROFILE
    /\ upstream = [timeline_prs |-> {}, html_prs |-> {}, pulls |-> [p \in PullNumbers |-> NoPull]]
    /\ AsyncLocals
    /\ apc = "idle"

IdleCloser ==
    /\ nodes = <<>>
    /\ closing_pr = NoClosingPr
    /\ cpc = "idle"

FinderLocals ==
    /\ rejection_counts = [k \in RejectionKeys |-> 0]
    /\ pull_numbers = <<>>
    /\ valid_pull_payloads = <<>>
    /\ keys = <<>>
    /\ cases = <<>>
    /\ recorded = <<>>

IdleFinder ==
    /\ FinderLocals
    /\ fpc = "idle"

IdleTime ==
    /\ now = 0
    /\ last_request = 0
    /\ last_sent = Never
    /\ closest = THROTTLE

IdleCache ==
    /\ enabled = FALSE
    /\ cache_dir = [q \in CachePaths |-> NoCacheFile]
    /\ wall = 0
    /\ latest = [q \in CachePaths |-> NoSet]
    /\ last_get = NoGet

IdleScan ==
    /\ github = NoSite
    /\ scan = NoScan
    /\ outs = <<>>

IdleSweep == sweep = NoSweep

IdlePar == par = NoPar
IdleScoring == scoring = NoScoring
IdleFast == fast = NoFast
IdlePaging == paging = NoPaging
IdleLate == IdlePar /\ IdleScoring /\ IdleFast /\ IdlePaging
IdleRest == IdleTime /\ IdleCache /\ IdleScan /\ IdleSweep /\ IdleLate

IdleClient ==
    /\ client = [api_c |-> 1, scrape_c |-> 1]
    /\ api_sem = Semaphore(1)
    /\ scrape_sem = Semaphore(1)
    /\ lock = [locked |-> FALSE, waiters |-> <<>>]
    /\ calls = [c \in Callers |-> [IdleCall EXCEPT !.pc = "none"]]

IdleGet == IdleClient /\ IdleRest

InitAsync ==
    /\ issue \in AsyncIssues
    /\ profile \in BUILTIN_PROFILES
    /\ upstream \in Upstreams
    /\ AsyncLocals
    /\ apc = "gates"
    /\ IdleLinked /\ IdleAnalyzer /\ IdleCloser /\ IdleFinder /\ IdleGet

NextAsync == AsyncGates \/ AsyncLoopStep \/ AsyncFinish

SpecAsync == InitAsync /\ [][NextAsync]_vars

InitCloser ==
    /\ nodes \in SeqsUpTo(TimelineNodes, MaxNodes)
    /\ closing_pr = NoClosingPr
    /\ cpc = "call"
    /\ IdleLinked /\ IdleAnalyzer /\ IdleAsync /\ IdleFinder /\ IdleGet

NextCloser == GetSingleClosingPr

SpecCloser == InitCloser /\ [][NextCloser]_vars

InitFinder ==
    /\ FinderLocals
    /\ fpc = "gates"
    /\ IdleLinked /\ IdleAnalyzer /\ IdleAsync /\ IdleCloser /\ IdleGet

NextFinder == FinderGates \/ FinderLink \/ FinderFiles

SpecFinder == InitFinder /\ [][NextFinder]_vars

InitGet ==
    /\ client \in [api_c : Ceilings, scrape_c : Ceilings]
    /\ api_sem = Semaphore(client.api_c)
    /\ scrape_sem = Semaphore(client.scrape_c)
    /\ lock = [locked |-> FALSE, waiters |-> <<>>]
    /\ calls = [c \in Callers |-> IdleCall]
    /\ IdleLinked /\ IdleAnalyzer /\ IdleAsync /\ IdleCloser /\ IdleFinder /\ IdleRest

NextGet == \E c \in Callers : GetStep(c)

\* the event loop runs every task that can go on; attempts and sleeps end
SpecGet == InitGet /\ [][NextGet]_vars /\ \A c \in Callers : WF_vars(GetStep(c))

NextRaising == \E c \in Callers : GetStep(c) \/ SendRaises(c)

\* as SpecGet, with the answers whose Retry-After header int() cannot read
SpecRaising ==
    InitGet /\ [][NextRaising]_vars /\ \A c \in Callers : WF_vars(GetStep(c) \/ SendRaises(c))

InitTimed ==
    /\ client = [api_c |-> 1, scrape_c |-> 2]
    /\ api_sem = Semaphore(client.api_c)
    /\ scrape_sem = Semaphore(client.scrape_c)
    /\ lock = [locked |-> FALSE, waiters |-> <<>>]
    /\ calls = [c \in Callers |-> IdleTimedCall]
    /\ now = StartTime
    \* no request was answered yet (0.0), or one was just now
    /\ last_request \in {0, StartTime}
    /\ last_sent = Never
    /\ closest = THROTTLE
    /\ IdleCache /\ IdleScan /\ IdleSweep /\ IdleLate
    /\ IdleLinked /\ IdleAnalyzer /\ IdleAsync /\ IdleCloser /\ IdleFinder

NextTimed ==
    \/ Tick(MaxOverlapTime)
    \/ \E c \in Callers :
          \/ TimedCall(c) \/ TimedSemResume(c) \/ TimedLockResume(c)
          \/ TimedThrottleWake(c) \/ Response(c) \/ RetryWake(c)

SpecTimed == InitTimed /\ [][NextTimed]_vars

\* the calls are made one after another, each awaited before the next starts
NextSequential ==
    \/ Tick(MaxTime)
    \/ \E c \in Callers :
          \/ SequentialCall(c)
          \/ TimedThrottleWake(c) \/ Response(c) \/ RetryWake(c)

SpecSequential == InitTimed /\ [][NextSequential]_vars

NextCancel == \E c \in Callers : GetStep(c) \/ Cancel(c)

\* as SpecGet; whether and when a task is cancelled is up to its owner
SpecCancel == InitGet /\ [][NextCancel]_vars /\ \A c \in Callers : WF_vars(GetStep(c))

\* the directory is empty, or a file of it holds text that is no JSON
InitCache ==
    /\ enabled \in BOOLEAN
    /\ \E broken \in SUBSET {CachePath("issues", IssuesKey)} :
         cache_dir = [q \in CachePaths |-> IF q \in broken THEN Unparsable ELSE NoCacheFile]
    /\ wall = 0
    /\ latest = [q \in CachePaths |-> NoSet]
    /\ last_get = NoGet
    /\ IdleLinked /\ IdleAnalyzer /\ IdleAsync /\ IdleCloser /\ IdleFinder
    /\ IdleClient /\ IdleTime /\ IdleScan /\ IdleSweep /\ IdleLate

NextCache ==
    \/ \E u \in CacheUses : CacheGet(u[1], u[2])
    \/ \E u \in CacheUses, data \in CacheData, ttl \in Ttls :
         CacheSet(u[1], u[2], data, ttl)
    \/ \E ns \in Namespaces \cup {EveryNamespace} : CacheInvalidate(ns)
    \/ WallTick

SpecCache == InitCache /\ [][NextCache]_vars

\* a repository, a profile, and a cache directory that was never written
InitScan ==
    /\ github \in Sites
    /\ \E p \in BUILTIN_PROFILES : scan = [NoScan EXCEPT !.pc = "idle", !.prof = p]
    /\ outs = <<>>
    /\ enabled = FALSE
    /\ cache_dir = [q \in ScanPaths |-> NoCacheFile]
    /\ wall = 0
    /\ latest = [q \in CachePaths |-> NoSet]
    /\ last_get = NoGet
    /\ IdleLinked /\ IdleAnalyzer /\ IdleAsync /\ IdleCloser /\ IdleFinder
    /\ IdleClient /\ IdleTime /\ IdleSweep /\ IdleLate

NoFaults == [k \in TaskIds |-> "ok"]

\* every request is answered
NextScan ==
    \/ \E on \in BOOLEAN : ScanRepo(on, NoFaults)
    \/ \E k \in TaskIds :
          TaskGates(k) \/ TaskLookup(k) \/ TaskFetched(k) \/ TaskFinish(k)
    \/ Gather
    \/ ScanTick

SpecScan == InitScan /\ [][NextScan]_vars

\* something goes wrong in the analysis of exactly one issue
OneFault ==
    { f \in [TaskIds -> FaultKinds] : Cardinality({ k \in TaskIds : f[k] # "ok" }) = 1 }

\* a scan in which every request is answered, without the cache, then a scan
\* of the same repository in which one issue's analysis meets a failure
CleanScan == outs = <<>> /\ ScanRepo(FALSE, NoFaults)
FaultyScan == Len(outs) = 1 /\ \E on \in BOOLEAN, f \in OneFault : ScanRepo(on, f)
NextFaulty ==
    \/ CleanScan
    \/ FaultyScan
    \/ \E k \in TaskIds :
          TaskGates(k) \/ TaskLookup(k) \/ TaskFetched(k) \/ TaskFinish(k)
    \/ Gather

SpecFaulty == InitScan /\ [][NextFaulty]_vars

\* the fan-out has listed its issues and is about to analyse the first
InitSweep ==
    /\ \E op \in {"search_and_analyze", "analyze_specific_repo"}, ws \in Worklists :
         sweep = [NoSweep EXCEPT !.pc = "issue", !.op = op, !.items = ws, !.i = 1, !.stage = 1]
    /\ IdleLinked /\ IdleAnalyzer /\ IdleAsync /\ IdleCloser /\ IdleFinder
    /\ IdleClient /\ IdleTime /\ IdleCache /\ IdleScan /\ IdleLate

NextSweep == SweepRequest \/ SweepRecord \/ SweepReturn

SpecSweep == InitSweep /\ [][NextSweep]_vars

IdleEarly ==
    /\ IdleLinked /\ IdleAnalyzer /\ IdleAsync /\ IdleCloser /\ IdleFinder
    /\ IdleClient /\ IdleTime /\ IdleCache /\ IdleScan /\ IdleSweep

InitPar ==
    /\ \E repos \in Batches :
         par = [NoPar EXCEPT !.pc = "running", !.repos = repos,
                             !.tasks = [k \in DOMAIN repos |-> ParTask]]
    /\ IdleEarly /\ IdleScoring /\ IdleFast /\ IdlePaging

NextPar ==
    \/ \E k \in ParRepoIds : ParEnrich(k)
    \/ \E k \in ParRepoIds, i \in ParIssueIds : ParAnalyze(k, i)
    \/ \E k \in ParRepoIds : ParScanned(k)
    \/ ParReturn

SpecPar == InitPar /\ [][NextPar]_vars

InitScoring ==
    /\ \E n \in FileCounts, t \in Churns, m \in Largests, len \in BodyLengths,
          st \in StarRoots, mb \in SizesMb :
         LET first == [NoScoring EXCEPT !.pc = "scored", !.n = n, !.t = t, !.m = m,
                                        !.len = len, !.stars = st, !.size_mb = mb]
         IN scoring = [first EXCEPT
                !.candidate = score_candidate(st, mb, len, n, t, m),
                !.complexity = compute_complexity(AnalysisWith(n, t, m, len)).complexity_score,
                !.was_candidate = score_candidate(st, mb, len, n, t, m),
                !.was_complexity = compute_complexity(AnalysisWith(n, t, m, len)).complexity_score]
    /\ IdleEarly /\ IdlePar /\ IdleFast /\ IdlePaging

NextScoring == MoreFiles \/ MoreChurn \/ LargerFile \/ LongerBody

SpecScoring == InitScoring /\ [][NextScoring]_vars

InitFast ==
    /\ \E u \in Upstreams : fast = [NoFast EXCEPT !.pc = "linked", !.site = <<u>>]
    /\ IdleEarly /\ IdlePar /\ IdleScoring /\ IdlePaging

NextFast == FastLinked \/ FastFirstLoop \/ FastSecondLoop \/ FastFirstLinked

SpecFast == InitFast /\ [][NextFast]_vars

InitPaging ==
    /\ \E e \in Endpoints, mp \in 1..MaxPages :
         paging = [NoPaging EXCEPT !.pc = "loop", !.endpoint = e, !.max_pages = mp]
    /\ IdleEarly /\ IdlePar /\ IdleScoring /\ IdleFast

NextPaging == GetPage \/ PagedReturn

SpecPaging == InitPaging /\ [][NextPaging]_vars

InitLinked ==
    /\ pulls \in PullRecords
    /\ timeline \in SeqsUpTo(TimelineEvents(pulls), MaxTimeline)
    /\ InitLinkedLocals
    /\ pc = "timeline"
    /\ IdleAnalyzer /\ IdleAsync /\ IdleCloser /\ IdleFinder /\ IdleGet

NextLinked == FetchTimeline \/ Strategy1 \/ Strategy2 \/ Strategy3 \/ Strategy4

SpecLinked == InitLinked /\ [][NextLinked]_vars

InitAnalyzer ==
    /\ analyzer \in AnalyzerSettings
    /\ early_reject \in BOOLEAN
    /\ repo_info = NoRepo
    /\ issue_data = NoIssue
    /\ pr_files = <<>>
    /\ analysis = EmptyAnalysis
    /\ pulls \in AnalyzerPulls
    /\ timeline \in AnalyzerTimelines(pulls)
    /\ InitLinkedLocals
    /\ pc = "analyze"
    /\ IdleAsync /\ IdleCloser /\ IdleFinder /\ IdleGet

NextAnalyzer ==
    \/ AnalyzeGates
    \/ FetchTimeline \/ Strategy1 \/ Strategy2 \/ Strategy3 \/ Strategy4
    \/ AnalyzeLinked

SpecAnalyzer == InitAnalyzer /\ [][NextAnalyzer]_vars

(***************************************************************************)
(* Properties of _find_linked_prs                                          *)
(***************************************************************************)
\* pull p is a same-repo cross-referenced pull of the timeline and is merged
CrossReferencedMerged(p) ==
    /\ pulls[p].merged
    /\ \E i \in DOMAIN timeline :
          /\ timeline[i].event = "cross-referenced"
          /\ timeline[i].repo = "own"
          /\ timeline[i].number = p

\* the issue's closed event (the latest one that names a commit) names the
\* merge commit of pull p
ClosedByMergeOf(p) ==
    \E i \in DOMAIN timeline :
       /\ timeline[i].event = "closed"
       /\ timeline[i].commit_id = MergeCommitSha[p]
       /\ \A j \in DOMAIN timeline :
             (j > i /\ timeline[j].event = "closed") => timeline[j].commit_id = NoCommit

BodyHasKeywordFor(p, n) ==
    \E i \in DOMAIN pulls[p].body : pulls[p].body[i] = Fix(n)

\* C5: when a cross-referenced merged pull A carries the closing commit and a
\* cross-referenced merged pull B (A or another) has a closing keyword for
\* the issue in its body, _find_linked_prs returns exactly [A].
C5_ShaMatchWins ==
    pc = "linked_done" =>
        \A a, b \in PullNumbers :
            ( /\ CrossReferencedMerged(a) /\ ClosedByMergeOf(a)
              /\ CrossReferencedMerged(b) /\ BodyHasKeywordFor(b, IssueNumber) )
            => unique_prs = <<a>>

\* a run where the keyword pull B is another pull than A and sorts before it
C5_Witness ==
    /\ pc = "linked_done"
    /\ \E a, b \in PullNumbers :
          /\ b < a
          /\ CrossReferencedMerged(a) /\ ClosedByMergeOf(a)
          /\ CrossReferencedMerged(b) /\ BodyHasKeywordFor(b, IssueNumber)
          /\ unique_prs = <<a>>

\* C6: the requests are issued in strategy order, and no request belongs to
\* a strategy that comes after one that already yielded a pull request.
C6_NoLaterStrategyRequests ==
    /\ \A i, j \in DOMAIN requests :
          i < j => requests[i].strategy <= requests[j].strategy
    /\ \A i \in DOMAIN requests :
          \A s \in 1..4 :
             (s < requests[i].strategy) => yielded[s] = <<>>

\* a run where strategy 2 yielded and strategies 3 and 4 issued nothing
C6_Witness ==
    /\ pc = "linked_done"
    /\ yielded[1] = <<>>
    /\ yielded[2] # <<>>
    /\ \E i \in DOMAIN requests : requests[i].strategy = 1
    /\ \E i \in DOMAIN requests : requests[i].strategy = 2
    /\ \A i \in DOMAIN requests : requests[i].strategy <= 2

(***************************************************************************)
(* Properties of IssueAnalyzer.analyze_issue  (SpecAnalyzer)               *)
(***************************************************************************)

\* C1: when analyze_issue ends with meets_criteria = True for the issue, the
\* body of the pull request recorded in pr_number carries no closing keyword
\* for a different issue.
C1_AcceptedPrClosesOnlyIssue ==
    analysis.meets_criteria =>
        ClosedByBody(pulls[analysis.pr_number].body) \subseteq {IssueNumber}

\* the Python code files among the files of the analysed pull request
CodeFiles(files) == SelectSeq(analyze_file_changes(files), is_code_python)

\* C2: meets_criteria = True only if the repository has at least min_stars
\* stars and at most max_size_mb of size, the issue is closed, its body has no
\* image and no link, exactly one merged pull request is linked, that pull
\* request changes at least min_python_files Python code files, and at least
\* one of those code files has additions + deletions >= min_substantial.
C2_MeetsCriteriaOnlyIf ==
    analysis.meets_criteria =>
        /\ repo_info.found /\ issue_data.found
        /\ repo_info.stargazers_count >= analyzer.min_stars
        /\ repo_info.size <= analyzer.max_size_mb * KbPerMb
        /\ issue_data.state = "closed"
        /\ ~check_issue_text_purity(issue_data.body).has_images
        /\ ~check_issue_text_purity(issue_data.body).has_links
        /\ Len(unique_prs) = 1
        /\ pulls[unique_prs[1]].merged
        /\ Len(CodeFiles(pr_files)) >= analyzer.min_python_files
        /\ \E i \in DOMAIN CodeFiles(pr_files) :
               total_changes(CodeFiles(pr_files)[i]) >= analyzer.min_substantial

\* the same without the last condition when the pull request changes no
\* Python code file
C2_ExceptNoCodeFiles ==
    analysis.meets_criteria =>
        /\ repo_info.found /\ issue_data.found
        /\ repo_info.stargazers_count >= analyzer.min_stars
        /\ repo_info.size <= analyzer.max_size_mb * KbPerMb
        /\ issue_data.state = "closed"
        /\ ~check_issue_text_purity(issue_data.body).has_images
        /\ ~check_issue_text_purity(issue_data.body).has_links
        /\ Len(unique_prs) = 1
        /\ pulls[unique_prs[1]].merged
        /\ Len(CodeFiles(pr_files)) >= analyzer.min_python_files
        /\ CodeFiles(pr_files) # <<>> =>
             \E i \in DOMAIN CodeFiles(pr_files) :
               total_changes(CodeFiles(pr_files)[i]) >= analyzer.min_substantial

(***************************************************************************)
(* Properties of AsyncGitHubClient.analyze_issue  (SpecAsync)              *)
(***************************************************************************)
\* the linked pulls that qualify as closing the issue: the issue number is in
\* closes_issues and it is the only one
Qualifying ==
    { p \in Range(pr_nums) :
        /\ upstream.pulls[p].found
        /\ closes_of(upstream.pulls[p].body) = <<issue.number>> }

\* C3: when two or more distinct linked pull requests each qualify as closing
\* the issue, the result selects none of them: pr_analysis is None and passes
\* is False.
C3_AmbiguityNotResolved ==
    (apc = "done" /\ Cardinality(Qualifying) >= 2) =>
        (~result.pr_analysis.found /\ ~result.passes)

\* C4: every result with passes = True refers to a merged pull request.
C4_PassingPrIsMerged ==
    (apc = "done" /\ result.passes) =>
        (result.pr_analysis.found /\ result.pr_analysis.merged)

\* the linked pulls whose body closes exactly the set {issue.number}
ClosingOnlyThisIssue ==
    { p \in Range(pr_nums) :
        /\ upstream.pulls[p].found
        /\ ClosedByBody(upstream.pulls[p].body) = {issue.number} }

\* C8: with require_one_way_close = True a linked pull request is eligible
\* exactly when the set of issue numbers its body closes is {issue.number}:
\* the pull chosen has that set, and one is chosen whenever a linked pull has
\* it, also when the body names the issue with a closing keyword twice.
C8_EligibleIffClosesOnlyThisIssue ==
    (apc = "done" /\ issue.state = "closed" /\ profile.require_one_way_close) =>
        /\ result.pr_analysis.found =>
             ClosedByBody(result.pr_analysis.body) = {issue.number}
        /\ ClosingOnlyThisIssue # {} => result.pr_analysis.found

\* the half of C8 the code keeps: the pull chosen closes this issue only
C8_ChosenClosesOnlyThisIssue ==
    (apc = "done" /\ profile.require_one_way_close /\ result.pr_analysis.found) =>
        ClosedByBody(result.pr_analysis.body) = {issue.number}

(***************************************************************************)
(* Properties of get_single_closing_pr  (SpecCloser)                       *)
(***************************************************************************)
\* the positions of the ClosedEvents whose closer is a pull request
PrClosedEvents ==
    { i \in DOMAIN nodes : nodes[i].typename = "ClosedEvent" /\ nodes[i].closer = "PullRequest" }

\* C7: get_single_closing_pr returns a pull request if and only if the
\* timeline has exactly one ClosedEvent whose closer is a pull request and
\* that pull's closingIssuesReferences is exactly the issue queried; it then
\* returns that pull.
C7_ReturnsIffSingleOneWayCloser ==
    cpc = "returned" =>
        /\ closing_pr.found <=>
             /\ Cardinality(PrClosedEvents) = 1
             /\ \A i \in PrClosedEvents : nodes[i].refs = <<IssueNumber>>
        /\ closing_pr.found =>
             \A i \in PrClosedEvents : nodes[i].number = closing_pr.number

\* what the code keeps: a pull returned is a closer whose references are
\* exactly the issue, and the only closer that has references at all
C7_ReturnedIsOneWayCloser ==
    (cpc = "returned" /\ closing_pr.found) =>
        /\ closing_pr.closes_issue_numbers = <<IssueNumber>>
        /\ \A i \in PrClosedEvents :
             nodes[i].refs # <<>> => nodes[i].number = closing_pr.number

(***************************************************************************)
(* Properties of IssueFinder._analyze_issue  (SpecFinder)                  *)
(***************************************************************************)
LastKey(ks) == IF ks = <<>> THEN "" ELSE ks[Len(ks)]

\* C9: the rejection reason recorded for an issue that more than one merged
\* pull qualifies for (ambiguous) differs from the reason recorded for an
\* issue that no merged pull qualifies for (absent).
C9_AmbiguousDiffersFromAbsent ==
    \A i, j \in DOMAIN cases :
        (cases[i] = "ambiguous" /\ cases[j] = "absent") =>
            LastKey(recorded[i]) # LastKey(recorded[j])

(***************************************************************************)
(* Properties of AsyncGitHubClient._get  (SpecGet)                         *)
(***************************************************************************)
Holding(c) == calls[c].pc \in InSlot
ApiHolders == { c \in Callers : calls[c].is_api /\ Holding(c) }
ScrapeHolders == { c \in Callers : ~calls[c].is_api /\ Holding(c) }
Waiting(c) == calls[c].pc = "wait_sem"

SlotCeilings ==
    /\ Cardinality(ApiHolders) <= client.api_c
    /\ Cardinality(ScrapeHolders) <= client.scrape_c

\* a caller without a slot is in line for one and has not returned
WaitersWait ==
    \A c \in Callers :
        Waiting(c) <=> (\E i \in DOMAIN SemOf(calls[c].is_api).waiters :
                            SemOf(calls[c].is_api).waiters[i] = c)

\* C10: at most api_c calls with is_api = True and at most scrape_c calls
\* with is_api = False are between acquiring and releasing their slot; a
\* caller that finds no free slot waits, and gets a slot after one is
\* released.
C10_SlotsBoundedAndGranted ==
    /\ [](SlotCeilings /\ WaitersWait)
    /\ \A c \in Callers : Waiting(c) ~> Holding(c)

\* a caller waits in line while every slot of its kind is taken
C10_Witness ==
    \E c \in Callers :
        /\ Waiting(c)
        /\ calls[c].is_api
        /\ Cardinality(ApiHolders) = client.api_c

(***************************************************************************)
(* Properties of cancellation inside _get  (SpecCancel)                    *)
(***************************************************************************)
Cancelled(c) == calls[c].pc = "cancelled"
Finished(c) == calls[c].pc \in {"returned", "cancelled"}
InLine(c, waiters) == \E i \in DOMAIN waiters : waiters[i] = c

\* the slots and the lock are held by the calls inside `async with`, and by
\* nobody else: a cancelled task holds none and waits in no line
HeldByLiveCalls ==
    /\ api_sem.value = client.api_c - Cardinality(ApiHolders)
    /\ scrape_sem.value = client.scrape_c - Cardinality(ScrapeHolders)
    /\ lock.locked <=> \E c \in Callers : calls[c].pc = "throttle_sleep"
    /\ \A c \in Callers :
         Cancelled(c) => /\ ~InLine(c, api_sem.waiters)
                         /\ ~InLine(c, scrape_sem.waiters)
                         /\ ~InLine(c, lock.waiters)

\* both slot counts are back at their ceilings and the lock is free
Restored ==
    /\ api_sem = Semaphore(client.api_c)
    /\ scrape_sem = Semaphore(client.scrape_c)
    /\ lock = [locked |-> FALSE, waiters |-> <<>>]

\* C16: a task cancelled at a suspension point of _get holds neither a slot
\* nor the throttle lock afterwards; the other callers still get their slot,
\* and once every task has finished or been cancelled both slot counts are
\* at their ceilings.
C16_CancelReleases ==
    /\ [](HeldByLiveCalls /\ ((\A c \in Callers : Finished(c)) => Restored))
    /\ \A c \in Callers : Waiting(c) ~> (Holding(c) \/ Cancelled(c))

\* with one api slot: a task was cancelled inside _get, and another api call
\* holds the slot, or has returned and left it free
C16_Witness ==
    \E c1, c2 \in Callers :
        /\ Cancelled(c1)
        /\ calls[c2].pc \in {"send", "backoff", "returned"}
        /\ calls[c1].is_api /\ calls[c2].is_api
        /\ client.api_c = 1
        /\ api_sem.value = IF calls[c2].pc = "returned" THEN 1 ELSE 0

(***************************************************************************)
(* Properties of AsyncGitHubClient._get with its clock                     *)
(* (SpecTimed, SpecSequential)                                             *)
(***************************************************************************)
UnderWay(c) == calls[c].first # Never

\* C11: the first requests of any two _get calls running concurrently on one
\* client are sent at least _throttle apart.
C11_FirstSendsThrottled ==
    \A c1, c2 \in Callers :
        (c1 # c2 /\ UnderWay(c1) /\ UnderWay(c2)) =>
            \/ calls[c1].first - calls[c2].first >= THROTTLE
            \/ calls[c2].first - calls[c1].first >= THROTTLE

\* C12: with the calls made one after another, any N requests they send span
\* at least (N-1) * _throttle: every two successive requests, retries
\* included, are at least _throttle apart.
C12_SequentialSpan == closest >= THROTTLE

\* the wait a 429 asks for: Retry-After seconds, 5 without the header
RetryAfterSeconds(h) == IF h = NoHeader THEN 5 ELSE IntOf(h)

\* the attempt in flight follows a 429 of the same call
SentAfter429(c) == calls[c].pc = "inflight" /\ calls[c].t429 # Never

WaitedRetryAfter ==
    \A c \in Callers :
        SentAfter429(c) =>
            calls[c].sent_at >= calls[c].t429 + RetryAfterSeconds(calls[c].h429)

\* C13, as stated: after a 429 carrying Retry-After: r no attempt of the call
\* is sent before r seconds have passed (5 without the header), and the call
\* goes on to a next attempt.
C13_RetryAfterThenNextAttempt ==
    /\ []WaitedRetryAfter
    /\ [][\A c \in Callers :
            (calls[c].pc = "retry_after" /\ calls'[c].pc # "retry_after") =>
                calls'[c].pc = "inflight"]_vars

\* C13, amended: the wait is kept; after it the call sends its next attempt
\* when the 429 answered its first or second attempt, and returns
\* (0, "", {}) when the 429 answered its third.
C13_RetryAfterWithinBudget ==
    /\ []WaitedRetryAfter
    /\ [][\A c \in Callers :
            (calls[c].pc = "retry_after" /\ calls'[c].pc # "retry_after") =>
                IF calls[c].attempt < MaxAttempts - 1
                THEN calls'[c].pc = "inflight" /\ calls'[c].attempt = calls[c].attempt + 1
                ELSE calls'[c].pc = "returned" /\ calls'[c].ret = GaveUp]_vars

\* an attempt sent after the wait a 429 with Retry-After: 2 asked for
C13_Witness ==
    \E c \in Callers : SentAfter429(c) /\ calls[c].h429 = "2"

\* C14: a _get call makes at most 3 attempts and ends by returning a
\* (status, body, headers) value, (0, "", {}) when the attempts are used up;
\* it never raises, whatever the response headers hold.
C14_ReturnsNeverRaises ==
    \A c \in Callers :
        /\ calls[c].attempt < MaxAttempts
        /\ calls[c].pc # "raised"
        /\ calls[c].pc = "returned" =>
             calls[c].ret \in {GaveUp} \cup { Answer(st) : st \in Statuses }

\* C15: what _get returns when every attempt was answered with 429 differs
\* from what it returns when every attempt failed with a timeout or a
\* connection error.
C15_RateLimitDistinct ==
    \A c1, c2 \in Callers :
        ( /\ calls[c1].pc = "returned" /\ calls[c1].met = {"429"}
          /\ calls[c2].pc = "returned" /\ calls[c2].met = {"error"} ) =>
            calls[c1].ret # calls[c2].ret

(***************************************************************************)
(* Properties of CacheStore  (SpecCache)                                   *)
(***************************************************************************)
\* what the latest set of the path asks a get to return now
Fresh(set) == set # NoSet /\ wall <= set.until
Awaited(path) == IF Fresh(latest[path]) THEN Some(latest[path].data) ELSE None

\* C17: on an enabled CacheStore get(ns, k) returns the data of the most
\* recent set(ns, k, data, ttl) while the time is not past that write's time
\* plus ttl; otherwise (never set, invalidated, expired) it returns None, and
\* a read of an expired entry deletes it.
C17_GetReturnsLatestUnexpired ==
    (enabled /\ last_get # NoGet) =>
        /\ last_get.ret = Awaited(last_get.path)
        /\ last_get.expired => cache_dir[last_get.path] = NoCacheFile
        /\ (latest[last_get.path] # NoSet /\ ~Fresh(latest[last_get.path])) =>
              cache_dir[last_get.path] = NoCacheFile

\* a get at the last moment of an entry's life returns it
C17_Witness ==
    /\ enabled
    /\ last_get # NoGet
    /\ last_get.ret # None
    /\ wall > 0
    /\ wall = latest[last_get.path].until

(***************************************************************************)
(* Properties of scan_repo over the cache  (SpecScan)                      *)
(***************************************************************************)
\* C18: for an upstream that answers every request, and the same each time,
\* scan_repo returns the same list (issues, chosen pulls with their files,
\* verdicts, scores, order) whether the cache is disabled, enabled and
\* empty, or enabled and filled by an earlier run.
C18_SameResultsWithAndWithoutCache ==
    \A i, j \in DOMAIN outs : outs[i].results = outs[j].results

\* the three kinds of run have happened, two issues were returned, and the
\* run on the filled cache sent fewer requests
C18_Witness ==
    /\ Len(outs) = 3
    /\ outs[1].cache = "disabled" /\ outs[2].cache = "empty" /\ outs[3].cache = "filled"
    /\ Len(outs[3].results) = 2
    /\ outs[3].sent < outs[2].sent

(***************************************************************************)
(* Properties of scan_repo when requests fail  (SpecFaulty)                *)
(***************************************************************************)
\* the issues of a run whose own analysis met no failure
Spared(out) == { github.issues[k].number : k \in { i \in DOMAIN out.faults : out.faults[i] = "ok" } }

\* C19: a failure in one issue's analysis (an exception, a failed fetch)
\* neither aborts nor changes the analysis of the other issues: every other
\* issue that passes with score >= profile.min_score when nothing fails is
\* returned, with the same result, by the scan in which the failure happens.
C19_FailureLeavesOthersUnchanged ==
    \A r \in DOMAIN outs :
        \A i \in DOMAIN outs[1].results :
            outs[1].results[i].issue.number \in Spared(outs[r]) =>
                \E j \in DOMAIN outs[r].results : outs[r].results[j] = outs[1].results[i]

(***************************************************************************)
(* Properties of the fan-out of IssueAnalyzer  (SpecSweep)                 *)
(***************************************************************************)
\* the issues none of whose requests the client gives up on
Answered(w) == \A st \in 1..Len(Stages) : request(w.courses[st], 0).raised = ""

\* C20: when the client gives up on a request of one issue, the failure is
\* kept to that issue: nothing is raised out of the fan-out, and once it
\* has returned, every issue whose requests were answered and that meets
\* the criteria is among the results.
C20_RequestFailureContained ==
    /\ sweep.pc # "raised"
    /\ sweep.pc = "returned" =>
          \A k \in DOMAIN sweep.items :
              (Answered(sweep.items[k]) /\ sweep.items[k].merits
                 /\ \A st \in 1..Len(Stages) : request(sweep.items[k].courses[st], 0).status = 200) =>
                  IssueAnalysisOf(sweep.items[k], "") \in Range(sweep.ret)

(***************************************************************************)
(* Properties of scan_repos_parallel  (SpecPar)                            *)
(***************************************************************************)
\* the position of a result's repository in the list handed over
RepoPos(r) == CHOOSE k \in DOMAIN par.repos : par.repos[k].listed.full_name = r.repo

\* the results the upstream fixes: those of the repositories that are
\* fetched and pass the gates, that raise nothing, pass and reach min_score
Due ==
    UNION { { ParResult(par.repos[k].listed.full_name, i, par.repos[k].analyses[i]) :
                i \in DOMAIN par.repos[k].analyses } :
            k \in { k \in DOMAIN par.repos :
                      /\ ~(par.repos[k].listed.size_kb = 0 /\ par.repos[k].info.raised)
                      /\ ~ParGated(enrich_repo(par.repos[k])) } }

\* C21: scan_repos_parallel returns its results by score, highest first, and
\* the list it returns is fixed by the upstream, whatever the order in which
\* the tasks finish: its members are the passing results, and results of
\* equal score stand in the order of the repositories handed over and, in
\* one repository, of the issues listed.
C21_ParallelResultFixedByUpstream ==
    par.pc = "returned" =>
        /\ \A i, j \in DOMAIN par.ret : i < j => par.ret[i].score >= par.ret[j].score
        /\ \A i, j \in DOMAIN par.ret : i < j => par.ret[i] # par.ret[j]
        /\ Range(par.ret) = { r \in Due : ~r.raised /\ r.passes
                                           /\ r.score >= PR_WRITER_PROFILE.min_score }
        /\ \A i, j \in DOMAIN par.ret :
              (i < j /\ par.ret[i].score = par.ret[j].score) =>
                  \/ RepoPos(par.ret[i]) < RepoPos(par.ret[j])
                  \/ /\ RepoPos(par.ret[i]) = RepoPos(par.ret[j])
                     /\ par.ret[i].number < par.ret[j].number

\* the second repository's scan finishes first and, in it, the second
\* issue's analysis; both repositories return two results of one score
C21_Witness ==
    /\ par.pc = "returned"
    /\ par.finished = <<2, 1>>
    /\ par.tasks[2].finished = <<2, 1>>
    /\ Len(par.ret) = 4
    /\ par.ret[1].score = par.ret[4].score

(***************************************************************************)
(* Properties of the body gate of AsyncGitHubClient.analyze_issue          *)
(* (SpecAsync)                                                             *)
(***************************************************************************)
\* C22: a body that is unknown (None in the listing, and the detail fetch
\* supplies none) is never treated as pure text: the score holds no
\* pure_body_score after the body gate and the reasons never hold
\* 'Body is pure text'.
C22_UnknownBodyNotPure ==
    (issue.state = "closed" /\ ~issue.body.known) =>
        /\ apc = "loop" => score = 0 /\ "Body is pure text" \notin Range(reasons)
        /\ apc = "done" => "Body is pure text" \notin Range(result.reasons)

(***************************************************************************)
(* Properties of the body gate in scan_repo  (SpecScan)                    *)
(***************************************************************************)
\* C23: under a profile with require_pure_body, scan_repo returns no issue
\* whose body contains a link or an image.
C23_NoImpureIssueReturned ==
    scan.prof.require_pure_body =>
        \A r \in DOMAIN outs :
            \A i \in DOMAIN outs[r].results :
                ~body_has_links_or_images(outs[r].results[i].issue.body)

(***************************************************************************)
(* Properties of the file statistics of IssueAnalyzer._analyze_pr          *)
(* (SpecAnalyzer)                                                          *)
(***************************************************************************)
\* the paths of the model in alphabetical order
Alphabetical == <<SrcApi, SrcCore, SrcDb, SrcUtil, TestCore>>
AlphaRank(f) == CHOOSE i \in DOMAIN Alphabetical : Alphabetical[i] = f

\* C24: max_change_file and max_file_changes name the Python code file
\* (no test, doc or config file) with the largest additions + deletions,
\* on a tie the alphabetically first path; they never name a test, doc,
\* config or non-Python file.
C24_MaxChangeFileIsLargestCodeFile ==
    analysis.file_changes # <<>> =>
        LET code == SelectSeq(analysis.file_changes, is_code_python)
        IN IF code = <<>>
           THEN analysis.max_change_file = NoFile /\ analysis.max_file_changes = 0
           ELSE \E i \in DOMAIN code :
                   /\ analysis.max_change_file = code[i].filename
                   /\ analysis.max_file_changes = total_changes(code[i])
                   /\ \A j \in DOMAIN code :
                         \/ total_changes(code[j]) < total_changes(code[i])
                         \/ /\ total_changes(code[j]) = total_changes(code[i])
                            /\ AlphaRank(code[i].filename) <= AlphaRank(code[j].filename)

(***************************************************************************)
(* Properties of the complexity scorers  (SpecScoring)                     *)
(***************************************************************************)
\* C25: score_candidate and _compute_complexity are monotone: raising the
\* number of code files changed, the total churn of the code files, the
\* largest single-file churn or the issue body length, the other inputs
\* fixed, never lowers the score.
C25_ScorersMonotone ==
    scoring.raised # "" =>
        /\ scoring.candidate >= scoring.was_candidate
        /\ scoring.complexity >= scoring.was_complexity

\* the total churn was raised across a tier: both scores rose
C25_Witness ==
    /\ scoring.raised = "churn"
    /\ scoring.t = 101
    /\ scoring.candidate > scoring.was_candidate
    /\ scoring.complexity > scoring.was_complexity

(***************************************************************************)
(* Properties of the early return of IssueAnalyzer.analyze_issue           *)
(* (SpecAnalyzer)                                                          *)
(***************************************************************************)
\* a gate of analyze_issue fails on the repository and the issue fetched
RepoGateFails == repo_info.found /\ RepoGate(EmptyAnalysis, repo_info).rejection_reasons # <<>>
IssueGateFails ==
    /\ issue_data.found /\ ~issue_data.pull_request
    /\ IssueGate(EmptyAnalysis, issue_data).rejection_reasons # <<>>

\* C26: with early_reject, when a repository gate (stars, size) or an issue
\* gate (not closed, image, link, body shorter than 30 characters) fails,
\* analyze_issue returns without any timeline, pull request, PR files or
\* search request.
C26_EarlyRejectSendsNothing ==
    (early_reject /\ pc # "analyze" /\ (RepoGateFails \/ IssueGateFails)) =>
        pc = "done" /\ requests = <<>>

\* the repository passes, the closed issue has a link in its body
C26_Witness ==
    /\ early_reject /\ pc = "done"
    /\ ~RepoGateFails /\ IssueGateFails
    /\ issue_data.state = "closed" /\ analysis.has_links
    /\ requests = <<>>

(***************************************************************************)
(* Properties of GitHubScraper.analyze_issue_fast  (SpecFast)              *)
(***************************************************************************)
\* C27: analyze_issue_fast returns a pull request for the issue only if
\* that pull request closes the issue and no other issue; when no linked
\* pull request does, it returns None.
C27_FastReturnsOnlyOneWayCloser ==
    (fast.pc = "done" /\ fast.ret.found) => Range(fast.ret.closes_issues) = {IssueNumber}

(***************************************************************************)
(* Properties of the pr_detail cache entries  (SpecFaulty)                 *)
(***************************************************************************)
\* C28: get_pr_detail writes a pr_detail cache entry only when both the
\* pull request's request and the request for its files succeeded: a step
\* that writes the entry of a pull is never one of a task whose request for
\* the pull or for its files failed.
C28_PrDetailWrittenOnlyAfterBothSucceed ==
    [][\A p \in PullNumbers :
          LET q == CachePath("pr_detail", NumberKey(p))
          IN (cache_dir'[q] # cache_dir[q] /\ cache_dir'[q] # NoCacheFile) =>
                \A k \in DOMAIN scan.tasks :
                    (scan.tasks[k].pc = "fetch" /\ scan'.tasks[k] # scan.tasks[k]) =>
                        scan.tasks[k].fault \notin {"pr", "files"}]_vars

(***************************************************************************)
(* Properties of concurrent _get calls  (SpecRaising)                      *)
(***************************************************************************)
\* every call sooner or later hands control back to its caller, by a return
\* or by an exception: no call waits forever for a slot or for the lock
EveryCallEnds ==
    \A c \in Callers : (calls[c].pc # "idle") ~> (calls[c].pc \in {"returned", "raised"})

\* C29: for any number of concurrent _get calls on one client, every HTTP
\* attempt completing or timing out, every call eventually returns.
C29_EveryCallReturns ==
    \A c \in Callers : (calls[c].pc # "idle") ~> (calls[c].pc = "returned")

(***************************************************************************)
(* Properties of GitHubClient.get_paginated  (SpecPaging)                  *)
(***************************************************************************)
\* page p ends the fetch: it is the last one allowed, or a 404, or empty or
\* short
LastPage(e, mp, p) ==
    \/ p = mp
    \/ e.kind = "missing"
    \/ Len(PageItems(e, p)) < PerPage

\* C30: get_paginated fetches all pages up to max_pages: the next page is
\* requested whenever the current one is full, for plain lists and search
\* responses alike; it stops only at max_pages, an empty page, a short page
\* or a 404.
C30_FetchesUntilLastPage ==
    paging.pc = "returned" =>
        /\ LastPage(paging.endpoint, paging.max_pages, paging.page)
        /\ \A p \in 1..(paging.page - 1) : ~LastPage(paging.endpoint, paging.max_pages, p)

====
